---- MODULE Spec2Model ----
(***************************************************************************)
(* A model of the Playwright/TypeScript test framework: the retrying       *)
(* helpers of BasePage, the custom reporter, the TestDataManager loader,   *)
(* the ApiClient, the fixtures of base-fixtures.ts / page-fixtures.ts and  *)
(* the artifact paths the tests write.  Each component has its own         *)
(* variables, actions and specification; the host runner and the browser   *)
(* library are the environment, drawn nondeterministically.                *)
(***************************************************************************)
EXTENDS Integers, Sequences, FiniteSets, TLC

VARIABLES
  \* BasePage.clickElement / fillInput
  rpc, rkind, rarg, retries, ri, rstep, rlog, rerr,
  \* CustomReporter
  repPhase, repSuite, repRetries, totalTests, passedTests, failedTests, skippedTests,
  results, metrics,
  \* TestDataManager and the data files
  dmPhase, environment, fsData, testData,
  \* ApiClient, the request contexts it created and the calls in progress
  apiPhase, apiCfgTimeout, apiTimeout, apiHeaders, apiContext, ctxs, req, initPc,
  cleanupPc,
  \* one test run by the host runner with the fixtures
  fxPhase, fxParams, fxOpts, fxTodo, fxStack, fxValue, fxResult, pageState, ctxState,
  fxTornDown,
  \* the artifact files written by tests running in parallel
  artTest, written, clock,
  \* the page-object method in progress and the locator calls it made
  pgPc, pgMethod, pgBody, pgTry, pgSub, pgCalls,
  \* Logger: the environment and the log file
  logPhase, logToFile, logDebug, logDirExists, logFile, logConsole,
  \* FileHelper: the downloaded files and the last verifyDownload call
  vdFs, vdCall,
  \* globalSetup and globalTeardown
  gPc, gRuns, gAt, gBrowser, gDirs, gLogged,
  \* the last call of a value-computing helper method and its result
  hCall,
  \* FileHelper uploads: the files that exist, the files set on the page's file input, the last call
  upFs, upInput, upCall,
  \* ScreenshotHelper: the page's viewport, the running or last call, what it did so far, the calls made
  shViewport, shCall, shLog, shCalls,
  \* TestDataManager queries: this.testData, the data as it was loaded, the last query and its value
  tdmData, tdmLoaded, tdmCall

retryVars == <<rpc, rkind, rarg, retries, ri, rstep, rlog, rerr>>

reporterVars ==
  <<repPhase, repSuite, repRetries, totalTests, passedTests, failedTests, skippedTests,
    results, metrics>>

dataVars == <<dmPhase, environment, fsData, testData>>

apiVars ==
  <<apiPhase, apiCfgTimeout, apiTimeout, apiHeaders, apiContext, ctxs, req, initPc,
    cleanupPc>>

fixtureVars ==
  <<fxPhase, fxParams, fxOpts, fxTodo, fxStack, fxValue, fxResult, pageState, ctxState,
    fxTornDown>>

artifactVars == <<artTest, written, clock>>

pagesVars == <<pgPc, pgMethod, pgBody, pgTry, pgSub, pgCalls>>

loggerVars == <<logPhase, logToFile, logDebug, logDirExists, logFile, logConsole>>

downloadVars == <<vdFs, vdCall>>

globalVars == <<gPc, gRuns, gAt, gBrowser, gDirs, gLogged>>

helperVars == <<hCall>>

uploadVars == <<upFs, upInput, upCall>>

shotsVars == <<shViewport, shCall, shLog, shCalls>>

queryVars == <<tdmData, tdmLoaded, tdmCall>>

vars == <<retryVars, reporterVars, dataVars, apiVars, fixtureVars, artifactVars,
   pagesVars, loggerVars, downloadVars, globalVars, helperVars, uploadVars, shotsVars,
   queryVars>>

\* What the actions of one component leave alone: the other components.
notRetry == <<reporterVars, dataVars, apiVars, fixtureVars, artifactVars, pagesVars,
   loggerVars, downloadVars, globalVars, helperVars, uploadVars, shotsVars, queryVars>>

notReporter == <<retryVars, dataVars, apiVars, fixtureVars, artifactVars, pagesVars,
   loggerVars, downloadVars, globalVars, helperVars, uploadVars, shotsVars, queryVars>>

notData == <<retryVars, reporterVars, apiVars, fixtureVars, artifactVars, pagesVars,
   loggerVars, downloadVars, globalVars, helperVars, uploadVars, shotsVars, queryVars>>

notApi == <<retryVars, reporterVars, dataVars, fixtureVars, artifactVars, pagesVars,
   loggerVars, downloadVars, globalVars, helperVars, uploadVars, shotsVars, queryVars>>

notArtifact == <<retryVars, reporterVars, dataVars, apiVars, fixtureVars, pagesVars,
   loggerVars, downloadVars, globalVars, helperVars, uploadVars, shotsVars, queryVars>>

notFixture == <<retryVars, reporterVars, dataVars, apiVars, artifactVars, pagesVars,
   loggerVars, downloadVars, globalVars, helperVars, uploadVars, shotsVars, queryVars>>

notPages ==
  <<retryVars, reporterVars, dataVars, apiVars, fixtureVars, artifactVars, loggerVars,
   downloadVars, globalVars, helperVars, uploadVars, shotsVars, queryVars>>

notLogger ==
  <<retryVars, reporterVars, dataVars, apiVars, fixtureVars, artifactVars, pagesVars,
   downloadVars, globalVars, helperVars, uploadVars, shotsVars, queryVars>>

notDownload ==
  <<retryVars, reporterVars, dataVars, apiVars, fixtureVars, artifactVars, pagesVars,
   loggerVars, globalVars, helperVars, uploadVars, shotsVars, queryVars>>

\* What setting up and tearing down a fixture leaves alone: it acts on the test, on
\* the ApiClient and on the TestDataManager.
notFixtureApiData ==
  <<retryVars, reporterVars, artifactVars, pagesVars, loggerVars, downloadVars,
   globalVars, helperVars, uploadVars, shotsVars, queryVars>>

notGlobal ==
  <<retryVars, reporterVars, dataVars, apiVars, fixtureVars, artifactVars, pagesVars, loggerVars, downloadVars,
   helperVars, uploadVars, shotsVars, queryVars>>

notHelper ==
  <<retryVars, reporterVars, dataVars, apiVars, fixtureVars, artifactVars, pagesVars, loggerVars, downloadVars, globalVars,
   uploadVars, shotsVars, queryVars>>

notUpload ==
  <<retryVars, reporterVars, dataVars, apiVars, fixtureVars, artifactVars, pagesVars, loggerVars, downloadVars, globalVars, helperVars,
   shotsVars, queryVars>>

notShots ==
  <<retryVars, reporterVars, dataVars, apiVars, fixtureVars, artifactVars, pagesVars, loggerVars, downloadVars, globalVars, helperVars, uploadVars,
   queryVars>>

notQuery ==
  <<retryVars, reporterVars, dataVars, apiVars, fixtureVars, artifactVars, pagesVars, loggerVars, downloadVars, globalVars, helperVars, uploadVars, shotsVars>>

\* An optional value: <<>> when absent (undefined), <<v>> when given.
UNDEF == <<>>

Some(v) == <<v>>

(***************************************************************************)
(* BasePage.clickElement / BasePage.fillInput                              *)
(***************************************************************************)
MaxRetries == 3

DefaultRetries == 3

RetryDelayMs == 1000

\* The awaited calls of one attempt, in order (the body of the try block).
AttemptSteps(kind) ==
  IF kind = "click" THEN <<"waitForElement", "click">>
                    ELSE <<"waitForElement", "clear", "fill">>

\* `retries: number = 3`
RetriesParam(arg) == IF arg = UNDEF THEN DefaultRetries ELSE arg[1]

LoopContinuesOffByOne(i, n) == i <= n

\* `i < retries`
LoopContinues(i, n) == i < n

IsLastAttemptNever(i, n) == FALSE

\* `if (i === retries - 1) throw error`
IsLastAttempt(i, n) == i = n - 1

IsAttempt(e) == e[1] \in {"ok", "fail"}

Attempts(log) == Cardinality({k \in 1..Len(log) : IsAttempt(log[k])})

RetryInit ==
  /\ rpc = "idle"
  /\ rkind = "click"
  /\ rarg = UNDEF
  /\ retries = 0
  /\ ri = 0
  /\ rstep = 1
  /\ rlog = <<>>
  /\ rerr = UNDEF

\* A page object calls clickElement(locator, retries?) or fillInput(locator, value, retries?).
RetryCall(kind, arg) ==
  /\ UNCHANGED notRetry
  /\ rpc = "idle"
  /\ rkind' = kind
  /\ rarg' = arg
  /\ retries' = RetriesParam(arg)
  /\ ri' = 0
  /\ rstep' = 1
  /\ rpc' = "loop"
  /\ UNCHANGED <<rlog, rerr>>

\* The for-loop test: enter the try block or fall out of the loop and return.
RetryLoopTest ==
  /\ UNCHANGED notRetry
  /\ rpc = "loop"
  /\ rpc' = IF LoopContinues(ri, retries) THEN "attempt" ELSE "returned"
  /\ rstep' = 1
  /\ UNCHANGED <<rkind, rarg, retries, ri, rlog, rerr>>

\* One awaited call of the try block resolves; after the last one the method returns.
RetryStepOk ==
  /\ UNCHANGED notRetry
  /\ rpc = "attempt"
  /\ IF rstep = Len(AttemptSteps(rkind))
       THEN /\ rlog' = Append(rlog, <<"ok", ri>>)
            /\ rpc' = "returned"
            /\ UNCHANGED rstep
       ELSE /\ rstep' = rstep + 1
            /\ UNCHANGED <<rlog, rpc>>
  /\ UNCHANGED <<rkind, rarg, retries, ri, rerr>>

\* One awaited call of the try block rejects: the catch block runs.
RetryStepFail ==
  /\ UNCHANGED notRetry
  /\ rpc = "attempt"
  /\ LET err == <<AttemptSteps(rkind)[rstep], ri>> IN
       /\ rlog' = Append(rlog, <<"fail", err>>)
       /\ IF IsLastAttempt(ri, retries)
            THEN /\ rpc' = "threw"
                 /\ rerr' = err
            ELSE /\ rpc' = "wait"
                 /\ UNCHANGED rerr
  /\ UNCHANGED <<rkind, rarg, retries, ri, rstep>>

\* `await this.page.waitForTimeout(1000)`, then `i++`.
RetryWait ==
  /\ UNCHANGED notRetry
  /\ rpc = "wait"
  /\ rlog' = Append(rlog, <<"wait", RetryDelayMs>>)
  /\ ri' = ri + 1
  /\ rpc' = "loop"
  /\ UNCHANGED <<rkind, rarg, retries, rstep, rerr>>

RetryNext ==
  \/ \E kind \in {"click", "fill"}, arg \in {Some(n) : n \in 0..MaxRetries} \cup {UNDEF} : RetryCall(kind, arg)
  \/ RetryLoopTest
  \/ RetryStepOk
  \/ RetryStepFail
  \/ RetryWait

LastEvent(log) == log[Len(log)]

RetryFinished == rpc \in {"returned", "threw"}

\* C1: clickElement and fillInput make at most `retries` attempts (3 when the
\* argument is omitted), and an attempt that succeeded is the last event of the call.
C1_AtMostRetriesAttempts ==
  /\ Attempts(rlog) <= retries
  /\ (rpc # "idle" /\ rarg = UNDEF) => Attempts(rlog) <= 3
  /\ (rpc # "idle" /\ rarg # UNDEF) => Attempts(rlog) <= rarg[1]
  /\ \A k \in 1..Len(rlog) : rlog[k][1] = "ok" => k = Len(rlog)

\* The third of three attempts succeeds and the call returns.
C1_Witness ==
  /\ rpc = "returned"
  /\ retries = 3
  /\ Attempts(rlog) = 3
  /\ LastEvent(rlog)[1] = "ok"

\* C2: for any retries value the call returns normally only after an attempt that
\* succeeded, and when every attempt fails it rejects with the last attempt's error.
C2_ReturnsOnlyAfterSuccess ==
  /\ rpc = "returned" => Len(rlog) > 0 /\ LastEvent(rlog)[1] = "ok"
  /\ rpc = "threw" =>
       /\ Len(rlog) > 0
       /\ LastEvent(rlog)[1] = "fail"
       /\ rerr = LastEvent(rlog)[2]

\* C3: every wait is the fixed 1000 ms, follows a failed attempt and is followed by
\* the next attempt; consecutive attempts are separated by exactly one wait; no wait
\* follows a successful attempt or the final failed attempt.
C3_OneWaitBetweenAttempts ==
  /\ \A k \in 1..Len(rlog) :
       rlog[k][1] = "wait" =>
         /\ rlog[k][2] = 1000
         /\ k > 1
         /\ rlog[k - 1][1] = "fail"
  /\ \A k \in 2..Len(rlog) :
       IsAttempt(rlog[k]) =>
         /\ rlog[k - 1][1] = "wait"
         /\ k > 2
         /\ IsAttempt(rlog[k - 2])
  /\ (RetryFinished /\ Len(rlog) > 0) => LastEvent(rlog)[1] # "wait"

\* Two failed attempts, each followed by one wait, then a successful third attempt.
C3_Witness ==
  /\ rpc = "returned"
  /\ Len(rlog) = 5
  /\ rlog[1][1] = "fail" /\ rlog[2][1] = "wait"
  /\ rlog[3][1] = "fail" /\ rlog[4][1] = "wait"
  /\ rlog[5][1] = "ok"

(***************************************************************************)
(* CustomReporter                                                          *)
(***************************************************************************)
MaxResults == 2

\* The test cases of the run: title and the project of the parent suite.
TestCases ==
  { [title |-> "search", projectName |-> "chromium"],
    [title |-> "search", projectName |-> "api"],
    [title |-> "login", projectName |-> "chromium"] }

\* TestResult.status of the host runner.
Statuses == {"passed", "failed", "timedOut", "skipped", "interrupted"}

\* TestResult.duration in ms (0 for a test that did not run, such as a skipped one).
Durations == {0, 10, 20}

\* playwright.config: retries: process.env.CI ? 2 : 0
ConfigRetries == {0, 2}

\* The switch of onTestEnd: the counter a status increments ("none": no case matches).
Bucket(status) ==
  CASE status = "passed" -> "passed"
    [] status = "failed" -> "failed"
    [] status = "skipped" -> "skipped"
    [] status = "timedOut" -> "failed"
    [] OTHER -> "none"

ReporterInit ==
  /\ repPhase = "constructed"
  /\ repSuite = {}
  /\ totalTests = 0
  /\ passedTests = 0
  /\ failedTests = 0
  /\ skippedTests = 0
  /\ results = <<>>
  /\ repRetries = 0
  /\ metrics = UNDEF

\* onBegin(config, suite): totalTests = suite.allTests().length
OnBegin(suite, configRetries) ==
  /\ UNCHANGED notReporter
  /\ repPhase = "constructed"
  /\ repPhase' = "running"
  /\ repSuite' = suite
  /\ repRetries' = configRetries
  /\ totalTests' = Cardinality(suite)
  /\ UNCHANGED <<passedTests, failedTests, skippedTests, results, metrics>>

\* The results already delivered for a test case, in order.
ResultsOf(test) ==
  SelectSeq(results,
            LAMBDA r : r.title = test.title /\ r.projectName = test.projectName)

\* The host runner delivers one result per run of a test: the first run, and a
\* retry after a failed or timed-out run while retries are left.
RunnerCanDeliver(test) ==
  LET mine == ResultsOf(test)
  IN  IF mine = <<>> THEN TRUE
      ELSE /\ mine[Len(mine)].status \in {"failed", "timedOut"}
           /\ Len(mine) <= repRetries

\* onTestEnd(test, result): push the result, then count it by status.
OnTestEnd(test, status, duration) ==
  /\ UNCHANGED notReporter
  /\ repPhase = "running"
  /\ Len(results) < MaxResults
  /\ RunnerCanDeliver(test)
  /\ results' = Append(results,
                  [title |-> test.title, status |-> status, duration |-> duration,
                   projectName |-> test.projectName])
  /\ passedTests' = IF Bucket(status) = "passed" THEN passedTests + 1 ELSE passedTests
  /\ failedTests' = IF Bucket(status) = "failed" THEN failedTests + 1 ELSE failedTests
  /\ skippedTests' = IF Bucket(status) = "skipped" THEN skippedTests + 1 ELSE skippedTests
  /\ UNCHANGED <<repPhase, repSuite, repRetries, totalTests, metrics>>

\* results.reduce((slowest, r) => r.duration > slowest.duration ? r : slowest, init)
RECURSIVE ReduceSlowest(_, _)
ReduceSlowest(rs, slowest) ==
  IF rs = <<>> THEN slowest
  ELSE ReduceSlowest(Tail(rs),
         IF Head(rs).duration > slowest.duration
           THEN [title |-> Head(rs).title, duration |-> Head(rs).duration]
           ELSE slowest)

\* results.reduce((fastest, r) => r.duration < fastest.duration ? r : fastest, init);
\* the initial duration Infinity is the absent value: every duration is below it.
RECURSIVE ReduceFastest(_, _)
ReduceFastest(rs, fastest) ==
  IF rs = <<>> THEN fastest
  ELSE ReduceFastest(Tail(rs),
         IF fastest.duration = UNDEF \/ Head(rs).duration < fastest.duration[1]
           THEN [title |-> Head(rs).title, duration |-> Some(Head(rs).duration)]
           ELSE fastest)

\* results.reduce((stats, r) => ..., {}): per project total, passed and failed.
RECURSIVE ReduceProjectStats(_, _)
ReduceProjectStats(rs, stats) ==
  IF rs = <<>> THEN stats
  ELSE LET r == Head(rs)
           old == IF r.projectName \in DOMAIN stats
                    THEN stats[r.projectName]
                    ELSE [total |-> 0, passed |-> 0, failed |-> 0]
           new == [total |-> old.total + 1,
                   passed |-> IF r.status = "passed" THEN old.passed + 1 ELSE old.passed,
                   failed |-> IF r.status = "failed" THEN old.failed + 1 ELSE old.failed]
       IN  ReduceProjectStats(Tail(rs),
             [p \in DOMAIN stats \cup {r.projectName} |->
                IF p = r.projectName THEN new ELSE stats[p]])

\* generateMetricsReport(): the object written to metrics.json.
GenerateMetricsReport ==
  LET slowestTest == ReduceSlowest(results, [title |-> "None", duration |-> 0])
      fastestTest == ReduceFastest(results, [title |-> "None", duration |-> UNDEF])
  IN  [execution |->
         [slowestTest |-> slowestTest.title,
          slowestTestDuration |-> slowestTest.duration,
          fastestTest |-> fastestTest.title,
          fastestTestDuration |->
            IF fastestTest.duration # UNDEF THEN fastestTest.duration[1] ELSE 0],
       summary |->
         [total |-> totalTests, passed |-> passedTests, failed |-> failedTests,
          skipped |-> skippedTests],
       projects |-> ReduceProjectStats(results, << >>)]

\* onEnd(result): the summary is logged and the reports are generated from the counters.
OnEnd ==
  /\ UNCHANGED notReporter
  /\ repPhase = "running"
  /\ repPhase' = "ended"
  /\ metrics' = Some(GenerateMetricsReport)
  /\ UNCHANGED <<repSuite, repRetries, totalTests, passedTests, failedTests,
                 skippedTests, results>>

ReporterNext ==
  \/ \E suite \in SUBSET TestCases, configRetries \in ConfigRetries :
       OnBegin(suite, configRetries)
  \/ \E test \in repSuite, status \in Statuses, duration \in Durations :
       OnTestEnd(test, status, duration)
  \/ OnEnd

CountStatus(st) == Cardinality({k \in 1..Len(results) : results[k].status = st})

\* C4: every result delivered to onTestEnd is counted in exactly one of the
\* pass, fail (which holds the timeouts) and skip counters.
C4_EveryResultCounted ==
  /\ passedTests + failedTests + skippedTests = Len(results)
  /\ passedTests = CountStatus("passed")
  /\ skippedTests = CountStatus("skipped")
  /\ failedTests = CountStatus("failed") + CountStatus("timedOut")

\* C12: in the metrics report the per-project passed counts sum to the summary's
\* passed count, and the per-project failed counts sum to the summary's failed count.
C12_ProjectCountsSumToSummary ==
  metrics # UNDEF =>
    LET rep == metrics[1]
        projs == DOMAIN rep.projects
        \* the sum over the projects of a count, as the size of a disjoint union
        SumPassed == Cardinality(UNION {{<<p, i>> : i \in 1..rep.projects[p].passed} :
                                          p \in projs})
        SumFailed == Cardinality(UNION {{<<p, i>> : i \in 1..rep.projects[p].failed} :
                                          p \in projs})
    IN  /\ SumPassed = rep.summary.passed
        /\ SumFailed = rep.summary.failed

\* C13: when at least one result was recorded, the metrics report names as slowest
\* a recorded test whose duration is the maximum over the recorded results, and as
\* fastest a recorded test whose duration is the minimum.
C13_SlowestAndFastestAreRecorded ==
  (metrics # UNDEF /\ results # <<>>) =>
    LET ex == metrics[1].execution
        idx == 1..Len(results)
    IN  /\ \E k \in idx :
             /\ results[k].title = ex.slowestTest
             /\ results[k].duration = ex.slowestTestDuration
             /\ \A j \in idx : results[j].duration <= results[k].duration
        /\ \E k \in idx :
             /\ results[k].title = ex.fastestTest
             /\ results[k].duration = ex.fastestTestDuration
             /\ \A j \in idx : results[j].duration >= results[k].duration

\* C16: when onEnd runs, passed + failed + skipped does not exceed the total test
\* count announced at onBegin, whatever results the runner delivered, repeated
\* results of retried tests included.
C16_CountersWithinTotal ==
  repPhase = "ended" => passedTests + failedTests + skippedTests <= totalTests

(***************************************************************************)
(* TestDataManager.initialize / loadTestData                               *)
(***************************************************************************)
\* Values of TEST_ENV; "default" names the fallback file itself.
Environments == {"staging", "dev", "default"}

\* path.join(dataDir, `${environment}.json`)
EnvDataFile(env) == <<"src/data", env, ".json">>

\* path.join(dataDir, 'default.json')
DefaultDataFile == <<"src/data", "default", ".json">>

DataFiles == {EnvDataFile(e) : e \in Environments} \cup {DefaultDataFile}

\* What a path holds: nothing, something readFileSync cannot read, text that is not
\* JSON, the JSON text `null`, or a JSON object.
FileKinds == {"absent", "unreadable", "malformed", "null", "valid"}

\* fs.existsSync
ExistsSync(fs, f) == fs[f] # "absent"

\* readFileSync followed by JSON.parse throws
ReadOrParseThrows(fs, f) == fs[f] \in {"unreadable", "malformed"}

\* JSON.parse(fs.readFileSync(f, 'utf-8')) when it does not throw
ParsedContent(fs, f) == IF fs[f] = "null" THEN <<"null">> ELSE <<"json", f>>

\* getDefaultTestData()
BuiltinDefaultData == <<"builtin">>

SelectDataFileNoFallback(env, fs) == EnvDataFile(env)

\* let dataFile = defaultDataFile; if (fs.existsSync(envDataFile)) dataFile = envDataFile
SelectDataFile(env, fs) ==
  IF ExistsSync(fs, EnvDataFile(env)) THEN EnvDataFile(env) ELSE DefaultDataFile

\* The value loadTestData leaves in this.testData.
LoadTestData(env, fs) ==
  LET dataFile == SelectDataFile(env, fs) IN
    IF ExistsSync(fs, dataFile)
      THEN IF ReadOrParseThrows(fs, dataFile)
             THEN BuiltinDefaultData
             ELSE ParsedContent(fs, dataFile)
      ELSE BuiltinDefaultData

DataInit ==
  /\ dmPhase = "none"
  /\ environment = "staging"
  /\ fsData = [f \in DataFiles |-> "absent"]
  /\ testData = UNDEF

\* new TestDataManager(environment), in a working directory holding the files fs.
DmNew(env, fs) ==
  /\ UNCHANGED notData
  /\ dmPhase = "none"
  /\ dmPhase' = "constructed"
  /\ environment' = env
  /\ fsData' = fs
  /\ testData' = UNDEF

\* initialize(): log, then loadTestData().
DmInitialize ==
  /\ UNCHANGED notData
  /\ dmPhase = "constructed"
  /\ dmPhase' = "initialized"
  /\ testData' = LoadTestData(environment, fsData)
  /\ UNCHANGED <<environment, fsData>>

\* cleanup(): logs only.
DmCleanup ==
  /\ UNCHANGED notData
  /\ dmPhase = "initialized"
  /\ dmPhase' = "cleaned"
  /\ UNCHANGED <<environment, fsData, testData>>

DataNext ==
  \/ \E env \in Environments, fs \in [DataFiles -> FileKinds] : DmNew(env, fs)
  \/ DmInitialize
  \/ DmCleanup

DmLoaded == dmPhase \in {"initialized", "cleaned"}

\* The file f was loaded: it could be read and parsed and its content is the data.
DmHolds(f) ==
  /\ ExistsSync(fsData, f)
  /\ ~ReadOrParseThrows(fsData, f)
  /\ testData = ParsedContent(fsData, f)

\* C7 as stated: initialize() loads <environment>.json when that file exists, and
\* default.json when the environment-specific file is absent.
C7_LoadsEnvOrDefaultFile ==
  DmLoaded =>
    IF ExistsSync(fsData, EnvDataFile(environment))
      THEN DmHolds(EnvDataFile(environment))
      ELSE DmHolds(DefaultDataFile)

\* C7 amended: initialize() loads <environment>.json when that file exists and can be
\* read and parsed, loads default.json when the environment-specific file is absent
\* and default.json exists and can be read and parsed, and in every other case
\* leaves the built-in default data set.
C7_LoadsEnvOrDefaultFileWhenReadable ==
  DmLoaded =>
    LET envFile == EnvDataFile(environment) IN
      IF ExistsSync(fsData, envFile)
        THEN IF fsData[envFile] \in {"valid", "null"}
               THEN DmHolds(envFile)
               ELSE testData = <<"builtin">>
        ELSE IF fsData[DefaultDataFile] \in {"valid", "null"}
               THEN DmHolds(DefaultDataFile)
               ELSE testData = <<"builtin">>

\* The staging file is absent and default.json is loaded in its place.
C7_Witness ==
  /\ dmPhase = "initialized"
  /\ environment = "staging"
  /\ fsData[EnvDataFile("staging")] = "absent"
  /\ fsData[DefaultDataFile] = "valid"
  /\ testData = <<"json", DefaultDataFile>>

\* C20: initialize() never throws and always finishes with a non-null data set
\* loaded, whether the data files are present, absent, unreadable or malformed.
C20_InitializeLeavesDataSet ==
  DmLoaded => (testData # UNDEF /\ testData # <<"null">>)

(***************************************************************************)
(* ApiClient                                                               *)
(***************************************************************************)
MaxRequests == 2

MaxContexts == 2

DefaultTimeoutMs == 30000

Slots == 1..MaxRequests

\* The timeout option of a call, and of the constructor's config: absent or a number
\* of milliseconds (0: no timeout, for the host API).
RequestTimeouts == {UNDEF, Some(0), Some(1000)}

ConfigTimeouts == {UNDEF, Some(0), Some(5000)}

\* What the host API does with a request it was handed: a response with any status
\* and a body that parses or not, or a failure of the request itself.
HostResponses ==
  [kind : {"response"}, status : {200, 404, 500}, body : {"json", "badjson"}]

HostErrors == [kind : {"error"}, error : {"network", "timeout"}]

NoContext == 0

IdleRequest == [pc |-> "idle"]

\* JavaScript `v || d` on an optional number: d when v is undefined or 0.
OrElse(v, d) == IF v = UNDEF \/ v[1] = 0 THEN d ELSE v[1]

\* constructor: this.timeout = config?.timeout || 30000
ConstructorTimeout(cfgTimeout) == OrElse(cfgTimeout, DefaultTimeoutMs)

\* timeout: options?.timeout || this.timeout
RequestTimeout(optTimeout, clientTimeout) == OrElse(optTimeout, clientTimeout)

\* processResponse: status from the response; data is null when the body does not parse.
ProcessResponse(response) ==
  [status |-> response.status,
   data |-> IF response.body = "json" THEN "parsed" ELSE "null"]

RequestOutcomeFailOnStatus(hostResult) ==
  IF hostResult.kind = "response" /\ hostResult.status < 400
    THEN [kind |-> "resolved", value |-> ProcessResponse(hostResult)]
    ELSE [kind |-> "rejected", error |-> "thrown"]

\* The try/catch of get/post/put/delete/patch around context.<verb>() and
\* processResponse(): a response resolves, a thrown error is logged and rethrown.
RequestOutcome(hostResult) ==
  IF hostResult.kind = "response"
    THEN [kind |-> "resolved", value |-> ProcessResponse(hostResult)]
    ELSE [kind |-> "rejected", error |-> hostResult.error]

ContextOpen(id) == id # NoContext /\ ctxs[id].disposed = 0

ApiInit ==
  /\ apiPhase = "none"
  /\ apiCfgTimeout = UNDEF
  /\ apiTimeout = 0
  /\ apiHeaders = {}
  /\ apiContext = NoContext
  /\ ctxs = <<>>
  /\ req = [r \in Slots |-> IdleRequest]
  /\ initPc = "idle"
  /\ cleanupPc = "idle"

\* new ApiClient(baseUrl, config)
ApiConstruct(cfgTimeout) ==
  /\ apiPhase' = "live"
  /\ apiCfgTimeout' = cfgTimeout
  /\ apiTimeout' = ConstructorTimeout(cfgTimeout)
  /\ apiHeaders' = {}
  /\ apiContext' = NoContext
  /\ UNCHANGED <<ctxs, req, initPc, cleanupPc>>

ApiNew(cfgTimeout) ==
  /\ UNCHANGED notApi
  /\ apiPhase = "none"
  /\ ApiConstruct(cfgTimeout)

\* request.newContext({extraHTTPHeaders: this.headers, timeout: this.timeout})
\* resolves; this.apiContext = it.  The context keeps the headers it was created with.
NewContextAssigned ==
  /\ ctxs' = Append(ctxs, [timeout |-> apiTimeout, headers |-> apiHeaders,
                           disposed |-> 0])
  /\ apiContext' = Len(ctxs) + 1

\* initialize() called by the test: up to the await of request.newContext.
ApiInitializeCall ==
  /\ UNCHANGED notApi
  /\ apiPhase = "live"
  /\ initPc = "idle"
  /\ Len(ctxs) < MaxContexts
  /\ initPc' = "newContext"
  /\ UNCHANGED <<apiPhase, apiCfgTimeout, apiTimeout, apiHeaders, apiContext, ctxs, req, cleanupPc>>

ApiInitializeDone ==
  /\ UNCHANGED notApi
  /\ initPc = "newContext"
  /\ Len(ctxs) < MaxContexts
  /\ NewContextAssigned
  /\ initPc' = "idle"
  /\ UNCHANGED <<apiPhase, apiCfgTimeout, apiTimeout, apiHeaders, req, cleanupPc>>

\* The host call context.<verb>(endpoint, {timeout: options?.timeout || this.timeout}):
\* the request carries the extra headers of the context it is made on.
Sent(opt, ctx) ==
  [pc |-> "inflight", opt |-> opt, ctx |-> ctx,
   sent |-> RequestTimeout(opt, apiTimeout), headers |-> ctxs[ctx].headers]

\* The common body of get/post/put/delete/patch up to its first suspension:
\* getContext() finds a context and the request is handed to it, or finds none and
\* awaits initialize().
ReqStart(r, opt) ==
  /\ UNCHANGED notApi
  /\ apiPhase = "live"
  /\ req[r].pc = "idle"
  /\ IF apiContext # NoContext
       THEN req' = [req EXCEPT ![r] = Sent(opt, apiContext)]
       ELSE /\ Len(ctxs) < MaxContexts
            /\ req' = [req EXCEPT ![r] = [pc |-> "newContext", opt |-> opt]]
  /\ UNCHANGED <<apiPhase, apiCfgTimeout, apiTimeout, apiHeaders, apiContext, ctxs, initPc, cleanupPc>>

\* get(endpoint, options), post(endpoint, data, options), put, delete and patch differ
\* only in the host method they call and in passing params or data.
Get(r, opt) == ReqStart(r, opt)

Post(r, opt) == ReqStart(r, opt)

Put(r, opt) == ReqStart(r, opt)

Delete(r, opt) == ReqStart(r, opt)

Patch(r, opt) == ReqStart(r, opt)

\* The request's own initialize() resumes: request.newContext resolved.
ReqContextCreated(r) ==
  /\ UNCHANGED notApi
  /\ req[r].pc = "newContext"
  /\ Len(ctxs) < MaxContexts
  /\ NewContextAssigned
  /\ req' = [req EXCEPT ![r].pc = "initialized"]
  /\ UNCHANGED <<apiPhase, apiCfgTimeout, apiTimeout, apiHeaders, initPc, cleanupPc>>

\* getContext() resumes and returns this.apiContext!, and the request is handed to it;
\* a null context makes the call throw, which the catch block rethrows.
ReqGetContextReturn(r) ==
  /\ UNCHANGED notApi
  /\ req[r].pc = "initialized"
  /\ req' = [req EXCEPT ![r] =
       IF apiContext = NoContext
         THEN [pc |-> "done",
               host |-> [kind |-> "error", error |-> "nullContext"],
               outcome |-> RequestOutcome([kind |-> "error", error |-> "nullContext"])]
         ELSE Sent(req[r].opt, apiContext)]
  /\ UNCHANGED <<apiPhase, apiCfgTimeout, apiTimeout, apiHeaders, apiContext, ctxs, initPc, cleanupPc>>

\* The host API settles the call: a response of the server, or an error of the
\* request itself (always an error once the context is disposed).
ReqSettle(r, hostResult) ==
  /\ UNCHANGED notApi
  /\ req[r].pc = "inflight"
  /\ hostResult.kind = "response" => ContextOpen(req[r].ctx)
  /\ req' = [req EXCEPT ![r] =
       [pc |-> "done", host |-> hostResult, outcome |-> RequestOutcome(hostResult)]]
  /\ UNCHANGED <<apiPhase, apiCfgTimeout, apiTimeout, apiHeaders, apiContext, ctxs, initPc, cleanupPc>>

\* The caller has taken the result of the call.
ReqRetire(r) ==
  /\ UNCHANGED notApi
  /\ req[r].pc = "done"
  /\ req' = [req EXCEPT ![r] = IdleRequest]
  /\ UNCHANGED <<apiPhase, apiCfgTimeout, apiTimeout, apiHeaders, apiContext, ctxs, initPc, cleanupPc>>

\* cleanup() up to the await: if (this.apiContext) await this.apiContext.dispose()
CleanupStart ==
  /\ cleanupPc = "idle"
  /\ IF apiContext # NoContext
       THEN /\ ctxs' = [ctxs EXCEPT ![apiContext].disposed = @ + 1]
            /\ cleanupPc' = "disposing"
       ELSE UNCHANGED <<ctxs, cleanupPc>>
  /\ UNCHANGED <<apiPhase, apiCfgTimeout, apiTimeout, apiHeaders, apiContext, req, initPc>>

\* cleanup() resumes after dispose(): this.apiContext = null
CleanupFinish ==
  /\ cleanupPc = "disposing"
  /\ apiContext' = NoContext
  /\ cleanupPc' = "idle"
  /\ UNCHANGED <<apiPhase, apiCfgTimeout, apiTimeout, apiHeaders, ctxs, req, initPc>>

\* The default headers a test sets: name and value.
AuthorizationHeader(type, token) ==
  [name |-> "Authorization", value |-> <<type, " ", token>>]

HeaderNames == {"Authorization", "X-Trace"}

\* this.headers[name] = value
WithHeader(headers, h) == {x \in headers : x.name # h.name} \cup {h}

\* delete this.headers[name]
WithoutHeader(headers, name) == {x \in headers : x.name # name}

\* No request.newContext call is pending (a test sets headers between its awaits).
NoContextPending ==
  /\ initPc = "idle"
  /\ \A r \in Slots : req[r].pc # "newContext"

\* setAuthToken(token, type = 'Bearer')
SetAuthToken(token, type) ==
  /\ UNCHANGED notApi
  /\ apiPhase = "live"
  /\ NoContextPending
  /\ apiHeaders' = WithHeader(apiHeaders, AuthorizationHeader(type, token))
  /\ UNCHANGED <<apiPhase, apiCfgTimeout, apiTimeout, apiContext, ctxs, req, initPc,
                 cleanupPc>>

\* setHeader(name, value)
SetHeader(name, value) ==
  /\ UNCHANGED notApi
  /\ apiPhase = "live"
  /\ NoContextPending
  /\ apiHeaders' = WithHeader(apiHeaders, [name |-> name, value |-> <<value>>])
  /\ UNCHANGED <<apiPhase, apiCfgTimeout, apiTimeout, apiContext, ctxs, req, initPc,
                 cleanupPc>>

\* removeHeader(name)
RemoveHeader(name) ==
  /\ UNCHANGED notApi
  /\ apiPhase = "live"
  /\ NoContextPending
  /\ apiHeaders' = WithoutHeader(apiHeaders, name)
  /\ UNCHANGED <<apiPhase, apiCfgTimeout, apiTimeout, apiContext, ctxs, req, initPc,
                 cleanupPc>>

\* getHeaders(): a copy of this.headers
GetHeaders == apiHeaders

ApiCleanupCall ==
  /\ UNCHANGED notApi
  /\ apiPhase = "live"
  /\ apiContext # NoContext
  /\ CleanupStart

ApiCleanupDone ==
  /\ UNCHANGED notApi
  /\ CleanupFinish

ApiNext ==
  \/ \E cfgTimeout \in ConfigTimeouts : ApiNew(cfgTimeout)
  \/ ApiInitializeCall
  \/ ApiInitializeDone
  \/ \E r \in Slots, opt \in RequestTimeouts : Get(r, opt)
  \/ \E r \in Slots, opt \in RequestTimeouts : Post(r, opt)
  \/ \E r \in Slots, opt \in RequestTimeouts : Put(r, opt)
  \/ \E r \in Slots, opt \in RequestTimeouts : Delete(r, opt)
  \/ \E r \in Slots, opt \in RequestTimeouts : Patch(r, opt)
  \/ \E r \in Slots : ReqContextCreated(r)
  \/ \E r \in Slots : ReqGetContextReturn(r)
  \/ \E r \in Slots, h \in HostResponses \cup HostErrors : ReqSettle(r, h)
  \/ \E r \in Slots : ReqRetire(r)
  \/ ApiCleanupCall
  \/ ApiCleanupDone

\* The client used by a test that sets default headers: requests without options,
\* answered 200 or failing, and the header methods between the calls.
ApiHeadersNext ==
  \/ ApiNew(UNDEF)
  \/ ApiInitializeCall
  \/ ApiInitializeDone
  \/ \E r \in Slots : Get(r, UNDEF)
  \/ \E r \in Slots : ReqContextCreated(r)
  \/ \E r \in Slots : ReqGetContextReturn(r)
  \/ \E r \in Slots :
       \E h \in {[kind |-> "response", status |-> 200, body |-> "json"],
                 [kind |-> "error", error |-> "network"]} : ReqSettle(r, h)
  \/ \E r \in Slots : ReqRetire(r)
  \/ ApiCleanupCall
  \/ ApiCleanupDone
  \/ SetAuthToken("t", "Bearer")
  \/ SetHeader("X-Trace", "v")
  \/ \E name \in HeaderNames : RemoveHeader(name)

\* C8: whatever status the server returns (4xx and 5xx included) the request method
\* resolves with a response object carrying that status, also when the body does
\* not parse; it rejects only when the request itself failed.
C8_ResolvesWithServerStatus ==
  \A r \in Slots :
    req[r].pc = "done" =>
      /\ req[r].host.kind = "response" =>
           /\ req[r].outcome.kind = "resolved"
           /\ req[r].outcome.value.status = req[r].host.status
      /\ req[r].outcome.kind = "rejected" => req[r].host.kind = "error"

\* The server answers 500 with a body that does not parse and the call resolves.
C8_Witness ==
  \E r \in Slots :
    /\ req[r].pc = "done"
    /\ req[r].host.kind = "response"
    /\ req[r].host.status = 500
    /\ req[r].host.body = "badjson"
    /\ req[r].outcome.kind = "resolved"
    /\ req[r].outcome.value.status = 500

\* C10: the timeout handed to the host API (to context.<verb> and to
\* request.newContext) is the one the caller supplied, unchanged (the call's,
\* else the configuration's), and 30000 ms only when none was supplied.
C10_TimeoutPassedUnchanged ==
  LET Supplied(opt, cfg) ==
        IF opt # UNDEF THEN opt[1] ELSE IF cfg # UNDEF THEN cfg[1] ELSE 30000
  IN  /\ \A r \in Slots :
           req[r].pc = "inflight" => req[r].sent = Supplied(req[r].opt, apiCfgTimeout)
      /\ \A k \in 1..Len(ctxs) : ctxs[k].timeout = Supplied(UNDEF, apiCfgTimeout)

\* C17: when several requests are started before any request context exists,
\* exactly one request context is created and all of them use it: the initialize()
\* of one request never creates a context while the client holds a context that
\* another request has obtained (and may already be using).
C17_OneContextForConcurrentFirstRequests ==
  [][\A r \in Slots :
       (req[r].pc = "newContext" /\ req'[r].pc = "initialized")
         => \A r2 \in Slots \ {r} :
              ~(req[r2].pc \in {"initialized", "inflight"} /\ apiContext # NoContext)]_vars

\* No call of the client is in progress.
ApiIdle ==
  /\ initPc = "idle"
  /\ cleanupPc = "idle"
  /\ \A r \in Slots : req[r].pc \in {"idle", "done"}

\* C18: once the last cleanup has returned (no call in progress and the client holds
\* no context), every request context the client created has been disposed exactly
\* once: none is leaked and none is disposed twice.
C18_EveryContextDisposedOnce ==
  (ApiIdle /\ apiContext = NoContext) =>
    \A k \in 1..Len(ctxs) : ctxs[k].disposed = 1

\* C19: after setAuthToken, setHeader or removeHeader has returned, every request
\* the client then sends carries exactly the default headers getHeaders() reports,
\* whether or not the client had sent a request before the change.
C19_RequestsCarryCurrentHeaders ==
  [][\A r \in Slots :
       (req[r].pc # "inflight" /\ req'[r].pc = "inflight")
         => req'[r].headers = GetHeaders]_vars

(***************************************************************************)
(* The fixtures of base-fixtures.ts and page-fixtures.ts, run by the host  *)
(* runner for one test: setup in dependency order, the test body, then     *)
(* teardown in the reverse order.                                          *)
(***************************************************************************)
\* The fixtures test.extend defines (context and page override the runner's).
DefinedFixtures ==
  {"testDataManager", "apiClient", "logger", "screenshotHelper", "videoHelper",
   "performanceHelper", "accessibilityHelper", "context", "page",
   "examplePage", "googleHomePage"}

\* The fixtures each fixture function destructures from its first argument.
FixtureDeps(f) ==
  CASE f = "page" -> {"context"}
    [] f \in {"screenshotHelper", "videoHelper", "performanceHelper",
              "accessibilityHelper"} -> {"page"}
    [] f \in {"examplePage", "googleHomePage"} -> {"page", "logger"}
    [] OTHER -> {}

\* An order of setup that respects the dependencies.
SetupOrderAllVideoFirst ==
  <<"testDataManager", "apiClient", "logger", "context", "videoHelper", "page",
    "screenshotHelper", "performanceHelper", "accessibilityHelper", "examplePage",
    "googleHomePage">>

\* The fixtures in the order the runner sets them up: a fixture after the fixtures
\* it depends on.
SetupOrderAll ==
  <<"testDataManager", "apiClient", "logger", "context", "page", "screenshotHelper",
    "videoHelper", "performanceHelper", "accessibilityHelper", "examplePage",
    "googleHomePage">>

\* The parameters of the README's example test, of tests/fixture-test.spec.ts and of
\* an API test.
ReadmeFixtures ==
  {"page", "examplePage", "apiClient", "testDataManager", "logger", "screenshotHelper",
   "performanceHelper", "accessibilityHelper", "fileHelper"}

TestParameterLists ==
  { ReadmeFixtures,
    ReadmeFixtures \ {"fileHelper"},
    {"page", "testDataManager", "apiClient", "logger", "screenshotHelper", "videoHelper"},
    {"apiClient", "logger"} }

\* The option values the configuration gives the fixtures: playwright.config sets
\* none of them; a project may switch them on or off.
TestOptionSets ==
  { [enablePerformanceTesting |-> UNDEF, enableAccessibilityTesting |-> UNDEF,
     recordVideo |-> FALSE, apiConfigTimeout |-> UNDEF],
    [enablePerformanceTesting |-> Some(TRUE), enableAccessibilityTesting |-> Some(TRUE),
     recordVideo |-> TRUE, apiConfigTimeout |-> Some(5000)],
    [enablePerformanceTesting |-> Some(FALSE), enableAccessibilityTesting |-> Some(TRUE),
     recordVideo |-> FALSE, apiConfigTimeout |-> Some(0)] }

\* `!flag` is false
Truthy(flag) == flag # UNDEF /\ flag[1]

Needed(params) ==
  LET direct == params \cup UNION {FixtureDeps(f) : f \in params}
  IN  direct \cup UNION {FixtureDeps(f) : f \in direct}

SetupOrder(params) == SelectSeq(SetupOrderAll, LAMBDA f : f \in Needed(params))

\* The value the fixture function passes to use().
UseValue(f, opts) ==
  CASE f = "performanceHelper" ->
         IF ~Truthy(opts.enablePerformanceTesting) THEN "undefined" ELSE "object"
    [] f = "accessibilityHelper" ->
         IF ~Truthy(opts.enableAccessibilityTesting) THEN "undefined" ELSE "object"
    [] OTHER -> "object"

FixtureInit ==
  /\ fxPhase = "idle"
  /\ fxParams = {}
  /\ fxOpts = CHOOSE o \in TestOptionSets : o.enablePerformanceTesting = UNDEF
  /\ fxTodo = <<>>
  /\ fxStack = <<>>
  /\ fxValue = [f \in DefinedFixtures |-> "unset"]
  /\ fxResult = "none"
  /\ pageState = "none"
  /\ ctxState = "none"
  /\ fxTornDown = <<>>

\* The runner starts a test: an unknown parameter fails it before any fixture runs.
TestStart(params, opts) ==
  /\ UNCHANGED notFixture
  /\ fxPhase = "idle"
  /\ fxParams' = params
  /\ fxOpts' = opts
  /\ IF params \subseteq DefinedFixtures
       THEN /\ fxPhase' = "setup"
            /\ fxTodo' = SetupOrder(params)
       ELSE /\ fxPhase' = "unknownParameter"
            /\ fxTodo' = <<>>
  /\ UNCHANGED <<fxStack, fxValue, fxResult, pageState, ctxState, fxTornDown>>

\* The next fixture function runs up to its use(value).
FixtureSetup ==
  /\ fxPhase = "setup"
  /\ fxTodo # <<>>
  /\ LET f == Head(fxTodo) IN
       /\ fxValue' = [fxValue EXCEPT ![f] = UseValue(f, fxOpts)]
       /\ fxStack' = <<f>> \o fxStack
       /\ fxTodo' = Tail(fxTodo)
       /\ pageState' = IF f = "page" THEN "open" ELSE pageState
       /\ ctxState' = IF f = "context" THEN "open" ELSE ctxState
       /\ IF f = "apiClient"
            THEN ApiConstruct(fxOpts.apiConfigTimeout)
            ELSE UNCHANGED apiVars
       /\ IF f = "testDataManager"
            THEN /\ dmPhase' = "initialized"
                 /\ environment' = "staging"
                 /\ testData' = LoadTestData("staging", fsData)
                 /\ UNCHANGED fsData
            ELSE UNCHANGED dataVars
  /\ UNCHANGED <<fxPhase, fxParams, fxOpts, fxResult, fxTornDown>>
  /\ UNCHANGED notFixtureApiData

\* Every fixture of the test has reached use(): the test body starts.
BodyStart ==
  /\ UNCHANGED notFixture
  /\ fxPhase = "setup"
  /\ fxTodo = <<>>
  /\ fxPhase' = "body"
  /\ UNCHANGED <<fxParams, fxOpts, fxTodo, fxStack, fxValue, fxResult, pageState,
                 ctxState, fxTornDown>>

ApiQuiescent ==
  /\ \A r \in Slots : req[r].pc = "idle"
  /\ initPc = "idle"
  /\ cleanupPc = "idle"

\* The test body ends, passing or failing, with every call it made returned.
BodyEnd(result) ==
  /\ UNCHANGED notFixture
  /\ fxPhase = "body"
  /\ ApiQuiescent
  /\ fxPhase' = "teardown"
  /\ fxResult' = result
  /\ UNCHANGED <<fxParams, fxOpts, fxTodo, fxStack, fxValue, pageState, ctxState,
                 fxTornDown>>

\* The fixture set up last resumes after use(): its teardown code runs.
FixtureTeardown ==
  /\ fxPhase = "teardown"
  /\ fxStack # <<>>
  /\ cleanupPc = "idle"
  /\ LET f == Head(fxStack) IN
       /\ pageState' = IF f = "page" THEN "closed" ELSE pageState
       /\ ctxState' = IF f = "context" THEN "closed" ELSE ctxState
       /\ IF f = "testDataManager"
            THEN /\ dmPhase' = "cleaned"
                 /\ UNCHANGED <<environment, fsData, testData>>
            ELSE UNCHANGED dataVars
       /\ IF f = "apiClient"
            THEN CleanupStart
            ELSE UNCHANGED apiVars
       /\ fxTornDown' = Append(fxTornDown, f)
       /\ fxStack' = Tail(fxStack)
  /\ UNCHANGED <<fxPhase, fxParams, fxOpts, fxTodo, fxValue, fxResult>>
  /\ UNCHANGED notFixtureApiData

\* apiClient.cleanup() of the apiClient fixture resumes after dispose().
FixtureApiCleanupDone ==
  /\ UNCHANGED notApi
  /\ fxPhase = "teardown"
  /\ CleanupFinish

\* Every teardown has run.
TestFinished ==
  /\ UNCHANGED notFixture
  /\ fxPhase = "teardown"
  /\ fxStack = <<>>
  /\ cleanupPc = "idle"
  /\ fxPhase' = "finished"
  /\ UNCHANGED <<fxParams, fxOpts, fxTodo, fxStack, fxValue, fxResult, pageState,
                 ctxState, fxTornDown>>

\* The test body uses its apiClient.
InBody == fxPhase = "body" /\ fxValue["apiClient"] = "object"

FixtureNext ==
  \/ \E params \in TestParameterLists, opts \in TestOptionSets : TestStart(params, opts)
  \/ FixtureSetup
  \/ BodyStart
  \/ \E result \in {"passed", "failed", "timedOut"} : BodyEnd(result)
  \/ FixtureTeardown
  \/ FixtureApiCleanupDone
  \/ TestFinished
  \/ InBody /\ ApiInitializeCall
  \/ InBody /\ ApiInitializeDone
  \/ InBody /\ \E r \in Slots, opt \in RequestTimeouts : Get(r, opt)
  \/ InBody /\ \E r \in Slots : ReqContextCreated(r)
  \/ InBody /\ \E r \in Slots : ReqGetContextReturn(r)
  \/ InBody /\ \E r \in Slots, h \in HostResponses \cup HostErrors : ReqSettle(r, h)
  \/ InBody /\ \E r \in Slots : ReqRetire(r)
  \/ InBody /\ ApiCleanupCall
  \/ InBody /\ ApiCleanupDone

\* C5: when fixture teardown has finished, whether the body passed or failed, the
\* page and the browser context opened for the test are closed and every request
\* context created through the apiClient fixture has been disposed.
C5_ResourcesReleasedAfterTeardown ==
  fxPhase = "finished" =>
    /\ pageState # "open"
    /\ ctxState # "open"
    /\ \A k \in 1..Len(ctxs) : ctxs[k].disposed >= 1

\* C6: every test that takes the README's fixtures reaches its body, and there each
\* of them is a defined, initialized object.
C6_ReadmeFixturesDefined ==
  /\ fxPhase # "unknownParameter"
  /\ fxPhase = "body" =>
       \A f \in fxParams \cap ReadmeFixtures : fxValue[f] = "object"

\* C21: during teardown videoHelper.cleanup runs before the page is closed, and
\* the page is closed before its browser context is closed.
C21_TeardownOrder ==
  LET Torn(f) == \E k \in 1..Len(fxTornDown) : fxTornDown[k] = f
      Pos(f) == CHOOSE k \in 1..Len(fxTornDown) : fxTornDown[k] = f
      SetUp(f) == fxValue[f] # "unset"
      Before(f, g) == (Torn(g) /\ SetUp(f)) => (Torn(f) /\ Pos(f) < Pos(g))
  IN  /\ Before("videoHelper", "page")
      /\ Before("page", "context")
      /\ ctxState = "closed" => pageState # "open"

\* A test recording video has been torn down: video helper, page and context.
C21_Witness ==
  /\ fxPhase = "finished"
  /\ fxOpts.recordVideo
  /\ \E i, j, k \in 1..Len(fxTornDown) :
       /\ fxTornDown[i] = "videoHelper" /\ fxTornDown[j] = "page"
       /\ fxTornDown[k] = "context" /\ i < j /\ j < k

(***************************************************************************)
(* The files the tests write while they run in parallel workers: the HAR   *)
(* recording of the context fixture and the screenshots of ScreenshotHelper *)
(***************************************************************************)
MaxClock == 1

MaxWrites == 3

\* fullyParallel: tests run side by side in these workers.
Workers == {1, 2}

\* Test titles, as their characters.
Titles == {<<"a", " ", "b">>, <<"a", "_", "b">>, <<"c">>}

ScreenshotNames == {"home", "fullpage"}

\* title.replace(/[^a-zA-Z0-9]/g, '_'), one character
SanitizeChar(c) == IF c \in {"a", "b", "c"} THEN c ELSE "_"

SanitizeTitle(title) == [i \in 1..Len(title) |-> SanitizeChar(title[i])]

\* contextOptions.recordHar = { path: 'test-results/har/network.har' }
HarPath == <<"test-results", "har", <<>>, "network.har", 0>>

\* path.join(screenshotDir, `${testName}-${name}-${timestamp}.png`); the timestamp
\* is the ISO string of the clock, one string per millisecond.
GenerateFileName(title, name, now) ==
  <<"test-results", "screenshots", SanitizeTitle(title), name, now>>

ArtifactInit ==
  /\ artTest = [w \in Workers |-> [running |-> FALSE]]
  /\ written = {}
  /\ clock = 0

\* A worker starts a test: the context fixture creates the browser context, which
\* records its HAR file when browserConfig.recordHar is set.
ArtTestStart(w, title, recordHar) ==
  /\ UNCHANGED notArtifact
  /\ ~artTest[w].running
  /\ Cardinality(written) < MaxWrites
  /\ artTest' = [artTest EXCEPT ![w] = [running |-> TRUE, title |-> title]]
  /\ written' = IF recordHar THEN written \cup {<<w, HarPath>>} ELSE written
  /\ UNCHANGED clock

\* screenshotHelper.takeFullPageScreenshot(name) and the like: page.screenshot to
\* generateFileName(name).
ArtScreenshot(w, name) ==
  /\ UNCHANGED notArtifact
  /\ artTest[w].running
  /\ Cardinality(written) < MaxWrites
  /\ written' = written \cup {<<w, GenerateFileName(artTest[w].title, name, clock)>>}
  /\ UNCHANGED <<artTest, clock>>

\* A millisecond passes.
ArtTick ==
  /\ UNCHANGED notArtifact
  /\ clock < MaxClock
  /\ clock' = clock + 1
  /\ UNCHANGED <<artTest, written>>

ArtifactNext ==
  \/ \E w \in Workers, title \in Titles, recordHar \in BOOLEAN : ArtTestStart(w, title, recordHar)
  \/ \E w \in Workers, name \in ScreenshotNames : ArtScreenshot(w, name)
  \/ ArtTick

\* C9: no two tests running in parallel write the same output file path.
C9_ArtifactPathsUnique ==
  \A a \in written, b \in written : a[2] = b[2] => a[1] = b[1]

(***************************************************************************)
(* The page objects (ExamplePage, GoogleHomePage, GoogleSearchResultsPage) *)
(* and the locator calls their methods make, through the BasePage helpers  *)
(* or directly.                                                            *)
(***************************************************************************)
\* The page-object methods that click, fill or clear something.
PageObjectMethods ==
  {"ExamplePage.clickMoreInfoLink",
   "GoogleHomePage.search", "GoogleHomePage.searchWithButton",
   "GoogleHomePage.clickFeelingLucky", "GoogleHomePage.getSearchSuggestions",
   "GoogleHomePage.clickLanguageLink", "GoogleHomePage.clearSearchBox",
   "GoogleHomePage.clickSignIn",
   "GoogleSearchResultsPage.clickSearchResult",
   "GoogleSearchResultsPage.searchNewQuery",
   "GoogleSearchResultsPage.goToNextPage",
   "GoogleSearchResultsPage.clickImagesTab"}

\* The query argument: empty or not (clickFeelingLucky tests it).
Queries == {"", "playwright"}

\* The awaited steps of a method body, in order.  "clickElement" / "fillInput"
\* are the BasePage helpers, "locator.click" / "locator.clear" are calls on the
\* locator itself, "isElementVisible" is a test whose false branch throws.
MethodBody(mth, query) ==
  CASE mth = "ExamplePage.clickMoreInfoLink" -> <<"locator.click">>
    [] mth = "GoogleHomePage.search" ->
         <<"fillInput", "pressKey", "waitForNavigation">>
    [] mth = "GoogleHomePage.searchWithButton" ->
         <<"fillInput", "clickElement", "waitForNavigation">>
    [] mth = "GoogleHomePage.clickFeelingLucky" ->
         (IF query # "" THEN <<"fillInput">> ELSE <<>>)
           \o <<"clickElement", "waitForNavigation">>
    [] mth = "GoogleHomePage.getSearchSuggestions" ->
         <<"fillInput", "waitForTimeout", "allTextContents">>
    [] mth = "GoogleHomePage.clickLanguageLink" ->
         <<"clickElement", "waitForNavigation">>
    [] mth = "GoogleHomePage.clearSearchBox" -> <<"locator.clear">>
    [] mth = "GoogleHomePage.clickSignIn" ->
         <<"clickElement", "waitForNavigation">>
    [] mth = "GoogleSearchResultsPage.clickSearchResult" ->
         <<"indexInBounds", "clickElement", "waitForNavigation">>
    [] mth = "GoogleSearchResultsPage.searchNewQuery" ->
         <<"locator.clear", "fillInput", "pressKey", "waitForNavigation">>
    [] mth = "GoogleSearchResultsPage.goToNextPage" ->
         <<"isElementVisible", "clickElement", "waitForNavigation">>
    [] mth = "GoogleSearchResultsPage.clickImagesTab" ->
         <<"clickElement", "waitForNavigation">>

HelperSteps == {"clickElement", "fillInput"}

DirectSteps == {"locator.click", "locator.clear"}

\* The locator calls of one attempt of a helper (its try block).
HelperCalls(h) == AttemptSteps(IF h = "clickElement" THEN "click" ELSE "fill")

DirectOp(step) == IF step = "locator.click" THEN "click" ELSE "clear"

PagesInit ==
  /\ pgPc = "idle"
  /\ pgMethod = "none"
  /\ pgBody = <<>>
  /\ pgTry = 0
  /\ pgSub = 1
  /\ pgCalls = {}

\* A test calls a page-object method.
PageCall(mth, query) ==
  /\ pgPc \in {"idle", "returned", "thrown"}
  /\ pgPc' = "run"
  /\ pgMethod' = mth
  /\ pgBody' = MethodBody(mth, query)
  /\ pgTry' = 0
  /\ pgSub' = 1
  /\ pgCalls' = {}
  /\ UNCHANGED notPages

\* A step that is neither a helper nor a locator click/fill/clear resolves.
PageOtherStep ==
  /\ pgPc = "run" /\ pgBody # <<>>
  /\ Head(pgBody) \notin HelperSteps \cup DirectSteps
  /\ pgBody' = Tail(pgBody)
  /\ UNCHANGED <<pgPc, pgMethod, pgTry, pgSub, pgCalls>>
  /\ UNCHANGED notPages

\* The test of a guarded method fails (or any other step rejects): the method throws.
PageStepThrows ==
  /\ pgPc = "run" /\ pgBody # <<>>
  /\ Head(pgBody) \notin HelperSteps \cup DirectSteps
  /\ pgPc' = "thrown"
  /\ UNCHANGED <<pgMethod, pgBody, pgTry, pgSub, pgCalls>>
  /\ UNCHANGED notPages

\* locator.click() / locator.clear() called by the method itself: one attempt.
PageDirectCall(ok) ==
  /\ pgPc = "run" /\ pgBody # <<>>
  /\ Head(pgBody) \in DirectSteps
  /\ pgCalls' = pgCalls \cup {[op |-> DirectOp(Head(pgBody)), via |-> "direct"]}
  /\ IF ok THEN pgBody' = Tail(pgBody) /\ pgPc' = pgPc
           ELSE pgBody' = pgBody /\ pgPc' = "thrown"
  /\ UNCHANGED <<pgMethod, pgTry, pgSub>>
  /\ UNCHANGED notPages

\* One awaited call of the try block of clickElement / fillInput (default retries).
PageHelperCall(ok) ==
  /\ pgPc = "run" /\ pgBody # <<>>
  /\ Head(pgBody) \in HelperSteps
  /\ LoopContinues(pgTry, DefaultRetries)
  /\ LET h == Head(pgBody)
         calls == HelperCalls(h)
     IN  /\ pgCalls' = pgCalls \cup {[op |-> calls[pgSub], via |-> h]}
         /\ IF ok
              THEN IF pgSub = Len(calls)
                     THEN pgBody' = Tail(pgBody) /\ pgTry' = 0 /\ pgSub' = 1
                          /\ pgPc' = pgPc
                     ELSE pgBody' = pgBody /\ pgTry' = pgTry /\ pgSub' = pgSub + 1
                          /\ pgPc' = pgPc
              ELSE IF IsLastAttempt(pgTry, DefaultRetries)
                     THEN pgPc' = "thrown" /\ UNCHANGED <<pgBody, pgTry, pgSub>>
                     ELSE pgPc' = pgPc /\ pgBody' = pgBody /\ pgTry' = pgTry + 1
                          /\ pgSub' = 1
  /\ UNCHANGED pgMethod
  /\ UNCHANGED notPages

\* The method body is finished.
PageReturn ==
  /\ pgPc = "run" /\ pgBody = <<>>
  /\ pgPc' = "returned"
  /\ UNCHANGED <<pgMethod, pgBody, pgTry, pgSub, pgCalls>>
  /\ UNCHANGED notPages

PagesNext ==
  \/ \E mth \in PageObjectMethods, query \in Queries : PageCall(mth, query)
  \/ PageOtherStep
  \/ PageStepThrows
  \/ \E ok \in BOOLEAN : PageDirectCall(ok)
  \/ \E ok \in BOOLEAN : PageHelperCall(ok)
  \/ PageReturn

\* C11: every click, fill and clear a page-object method performs on the page
\* goes through the retrying helpers clickElement / fillInput; none is a direct
\* call of the locator's click, fill or clear.
C11_InteractionsGoThroughHelpers ==
  \A c \in pgCalls : c.op \in {"click", "fill", "clear"} => c.via \in HelperSteps

(***************************************************************************)
(* Logger: the public log methods, log() and writeToFile().                *)
(***************************************************************************)
MaxLogCalls == 2

\* process.env.LOG_TO_FILE: unset, or the string it was set to.
LogToFileValues == {UNDEF, Some(""), Some("true"), Some("false"), Some("1")}

\* process.env.DEBUG: unset, or a string.
DebugValues == {UNDEF, Some("pw:api")}

\* JavaScript truthiness of an environment variable: set, and not the empty string.
EnvTruthy(v) == v # UNDEF /\ v[1] # ""

LogDir == <<"test-results", "logs">>

LoggerInit ==
  /\ logPhase = "unset"
  /\ logToFile = UNDEF
  /\ logDebug = UNDEF
  /\ logDirExists = FALSE
  /\ logFile = <<>>
  /\ logConsole = <<>>

\* The process starts with its environment variables.
LoggerStart(toFile, debug) ==
  /\ logPhase = "unset"
  /\ logPhase' = "ready"
  /\ logToFile' = toFile
  /\ logDebug' = debug
  /\ UNCHANGED <<logDirExists, logFile, logConsole>>
  /\ UNCHANGED notLogger

\* writeToFile(level, message, data): mkdir when the directory is missing, then
\* append the entry; an error of the file system is caught and only reported.
WriteToFile(level, fsOk) ==
  IF fsOk
    THEN /\ logDirExists' = TRUE
         /\ logFile' = Append(logFile, [dir |-> LogDir, level |-> level])
    ELSE UNCHANGED <<logDirExists, logFile>>

\* log(level, message, data): the console line, then the file when enabled.
Log(level, fsOk) ==
  /\ logPhase = "ready"
  /\ Len(logConsole) < MaxLogCalls
  /\ logConsole' = Append(logConsole, level)
  /\ IF EnvTruthy(logToFile)
       THEN WriteToFile(level, fsOk)
       ELSE UNCHANGED <<logDirExists, logFile>>
  /\ UNCHANGED <<logPhase, logToFile, logDebug>>
  /\ UNCHANGED notLogger

LogInfo(fsOk) == Log("INFO", fsOk)

LogWarn(fsOk) == Log("WARN", fsOk)

LogError(fsOk) == Log("ERROR", fsOk)

LogSuccess(fsOk) == Log("SUCCESS", fsOk)

LogStep(fsOk) == Log("STEP", fsOk)

\* debug(): logs only when process.env.DEBUG is truthy, else does nothing.
LogDebug(fsOk) ==
  /\ EnvTruthy(logDebug)
  /\ Log("DEBUG", fsOk)

LoggerNext ==
  \/ \E toFile \in LogToFileValues, debug \in DebugValues : LoggerStart(toFile, debug)
  \/ \E fsOk \in BOOLEAN : LogInfo(fsOk)
  \/ \E fsOk \in BOOLEAN : LogWarn(fsOk)
  \/ \E fsOk \in BOOLEAN : LogError(fsOk)
  \/ \E fsOk \in BOOLEAN : LogSuccess(fsOk)
  \/ \E fsOk \in BOOLEAN : LogStep(fsOk)
  \/ \E fsOk \in BOOLEAN : LogDebug(fsOk)

\* C14: log entries are appended to a file under test-results/logs only when
\* LOG_TO_FILE is enabled; with LOG_TO_FILE unset or set to false, logging writes
\* no file (and creates no directory).
C14_NoFileUnlessEnabled ==
  /\ (logToFile = UNDEF \/ logToFile = Some("false")) =>
       (logFile = <<>> /\ ~logDirExists)
  /\ \A k \in 1..Len(logFile) : logFile[k].dir = LogDir

(***************************************************************************)
(* FileHelper.saveDownload / deleteFile / verifyDownload.  The files of the *)
(* downloads directory are absent (UNDEF) or present with a size in bytes.  *)
(***************************************************************************)
MaxFileSize == 2

DownloadPaths == {"report.pdf", "data.csv"}

FileSizes == 0..MaxFileSize

\* minSizeBytes?: number
MinSizes == {UNDEF} \cup {Some(n) : n \in 0..(MaxFileSize + 1)}

\* fs.existsSync(filePath) on the downloads directory
DownloadExists(fs, filePath) == fs[filePath] # UNDEF

\* fs.statSync(filePath).size
StatSize(fs, filePath) == fs[filePath][1]

TooSmallOrEqual(size, minSizeBytes) == size <= minSizeBytes

\* if (size < minSizeBytes)
TooSmall(size, minSizeBytes) == size < minSizeBytes

\* verifyDownload(filePath, minSizeBytes): the value returned.
VerifyDownloadResult(fs, filePath, minSizeBytes) ==
  IF ~DownloadExists(fs, filePath) THEN FALSE
  ELSE IF minSizeBytes # UNDEF /\ TooSmall(StatSize(fs, filePath), minSizeBytes[1])
         THEN FALSE
         ELSE TRUE

DownloadInit ==
  /\ vdFs = [p \in DownloadPaths |-> UNDEF]
  /\ vdCall = UNDEF

\* download.saveAs(filePath): the file is written with some size.
SaveDownload(filePath, size) ==
  /\ vdFs' = [vdFs EXCEPT ![filePath] = Some(size)]
  /\ vdCall' = UNDEF
  /\ UNCHANGED notDownload

\* deleteFile(filePath): unlink the file if it exists.
DeleteFile(filePath) ==
  /\ vdFs' = IF DownloadExists(vdFs, filePath)
              THEN [vdFs EXCEPT ![filePath] = UNDEF]
              ELSE vdFs
  /\ vdCall' = UNDEF
  /\ UNCHANGED notDownload

\* verifyDownload(filePath, minSizeBytes): synchronous, reads the file system and
\* returns; the call and its result are recorded.
VerifyDownload(filePath, minSizeBytes) ==
  /\ vdCall' = Some([filePath |-> filePath, minSizeBytes |-> minSizeBytes,
                     result |-> VerifyDownloadResult(vdFs, filePath, minSizeBytes)])
  /\ UNCHANGED vdFs
  /\ UNCHANGED notDownload

DownloadNext ==
  \/ \E filePath \in DownloadPaths, size \in FileSizes : SaveDownload(filePath, size)
  \/ \E filePath \in DownloadPaths : DeleteFile(filePath)
  \/ \E filePath \in DownloadPaths, minSizeBytes \in MinSizes :
       VerifyDownload(filePath, minSizeBytes)

\* C15: verifyDownload(filePath, minSizeBytes) returns true exactly when the file
\* exists and, if minSizeBytes is given, the file's size is at least minSizeBytes;
\* in every other case it returns false.
C15_VerifyDownloadExact ==
  vdCall # UNDEF =>
    LET c == vdCall[1]
        file == vdFs[c.filePath]
    IN  c.result = (/\ file # UNDEF
                    /\ (c.minSizeBytes # UNDEF => file[1] >= c.minSizeBytes[1]))

\* A file whose size is exactly the minimum of 0 < minSizeBytes was verified, and so
\* was one below the minimum and one checked against minSizeBytes = 0.
C15_Witness ==
  /\ vdCall # UNDEF
  /\ vdCall[1].minSizeBytes = Some(MaxFileSize)
  /\ vdFs[vdCall[1].filePath] = Some(MaxFileSize)
  /\ vdCall[1].result = TRUE

(***************************************************************************)
(* globalSetup (global-setup.ts) and globalTeardown (global-teardown.ts),  *)
(* run by the host runner before and after the tests.                      *)
(***************************************************************************)
MaxRuns == 2

\* The calls of globalSetup's try block that can throw, in order.
GlobalSetupSteps ==
  <<"chromium.launch", "browser.newContext", "context.newPage", "mkdirSync",
    "context.close", "browser.close">>

\* The directories of the working directory: present or not.
GlobalDirs == [testResults : BOOLEAN, archivedResults : BOOLEAN]

TeardownCatchRethrows(threw) == IF threw THEN "thrown" ELSE "returned"

\* globalTeardown's catch block logs the error and does not rethrow.
TeardownCatch(threw) == "returned"

GlobalInit ==
  /\ gPc = "idle"
  /\ gRuns = 0
  /\ gAt = 1
  /\ gBrowser = "none"
  /\ gDirs = [testResults |-> FALSE, archivedResults |-> FALSE]
  /\ gLogged = <<>>

\* The runner calls globalSetup: the first run in some working directory, a later
\* run (a new process) in the directory the run before left.
GlobalSetupStart(dirs) ==
  /\ gPc \in {"idle", "teardownReturned"}
  /\ gRuns < MaxRuns
  /\ gRuns > 0 => dirs = gDirs
  /\ gRuns' = gRuns + 1
  /\ gPc' = "setup"
  /\ gDirs' = dirs
  /\ gAt' = 1
  /\ gBrowser' = "none"
  /\ gLogged' = <<>>
  /\ UNCHANGED notGlobal

\* The next call of the try block resolves (ok) or throws; a throw goes to the catch
\* block, which logs and rethrows.  mkdirSync is called only when test-results is
\* missing.
GlobalSetupStep(ok) ==
  /\ gPc = "setup"
  /\ LET step == GlobalSetupSteps[gAt]
         skipped == step = "mkdirSync" /\ gDirs.testResults
         done == ok \/ skipped
     IN  /\ gBrowser' = IF step = "chromium.launch" /\ ok THEN "open"
                        ELSE IF step = "browser.close" /\ ok THEN "closed"
                        ELSE gBrowser
         /\ gDirs' = IF step = "mkdirSync" /\ done
                       THEN [gDirs EXCEPT !.testResults = TRUE] ELSE gDirs
         /\ IF done
              THEN /\ gPc' = IF gAt = Len(GlobalSetupSteps) THEN "setupReturned" ELSE "setup"
                   /\ gAt' = IF gAt = Len(GlobalSetupSteps) THEN gAt ELSE gAt + 1
                   /\ gLogged' = gLogged
              ELSE /\ gPc' = "setupThrown"
                   /\ gAt' = gAt
                   /\ gLogged' = Append(gLogged, "Global setup failed")
  /\ UNCHANGED gRuns
  /\ UNCHANGED notGlobal

\* globalTeardown: synchronous.  When test-results exists and archived-results does
\* not, mkdirSync creates it and may throw (mkdirOk false); the catch block logs.
GlobalTeardown(mkdirOk) ==
  /\ gPc \in {"setupReturned", "setupThrown"}
  /\ LET calls == gDirs.testResults /\ ~gDirs.archivedResults
         threw == calls /\ ~mkdirOk
     IN  /\ gDirs' = IF calls /\ mkdirOk
                       THEN [gDirs EXCEPT !.archivedResults = TRUE] ELSE gDirs
         /\ gLogged' = IF threw THEN Append(gLogged, "Global teardown failed")
                        ELSE gLogged
         /\ gPc' = IF TeardownCatch(threw) = "thrown" THEN "teardownThrown"
                   ELSE "teardownReturned"
  /\ UNCHANGED <<gRuns, gAt, gBrowser>>
  /\ UNCHANGED notGlobal

GlobalNext ==
  \/ \E dirs \in GlobalDirs : GlobalSetupStart(dirs)
  \/ \E ok \in BOOLEAN : GlobalSetupStep(ok)
  \/ \E mkdirOk \in BOOLEAN : GlobalTeardown(mkdirOk)

\* C22: whenever globalSetup launched a browser, the browser is closed by the time
\* globalSetup completes, on the failure path as on the success path.
C22_SetupClosesBrowser ==
  (gPc \in {"setupReturned", "setupThrown"} /\ gBrowser # "none")
    => gBrowser = "closed"

\* C23: globalTeardown never throws: an error raised while it prepares the results
\* archive is logged and swallowed, and teardown completes normally.
C23_TeardownNeverThrows ==
  /\ gPc # "teardownThrown"
  /\ (gPc = "teardownReturned" /\ gDirs.testResults /\ ~gDirs.archivedResults)
       => (gLogged # <<>> /\ gLogged[Len(gLogged)] = "Global teardown failed")

\* mkdirSync('archived-results') threw and teardown completed normally.
C23_Witness ==
  /\ gPc = "teardownReturned"
  /\ gDirs.testResults /\ ~gDirs.archivedResults
  /\ gLogged # <<>> /\ gLogged[Len(gLogged)] = "Global teardown failed"

(***************************************************************************)
(* Helper methods that compute a value from their arguments or from what   *)
(* the page shows: validateAccessibilityStandards, checkHeadingStructure,  *)
(* getCurrentPageNumber.  hCall records the last call and its result.      *)
(***************************************************************************)
MaxViolations == 2

MaxHeadings == 2

MaxHeadingLevel == 3

MaxStartLen == 2

\* JavaScript truthiness of an optional number: given, and not 0.
NumTruthy(v) == v # UNDEF /\ v[1] # 0

Landmarks == {"main", "navigation"}

\* The report: overallScore, axeResults.violations.length, ariaLandmarks.landmarks.
Reports ==
  [overallScore : {50, 90}, violations : 0..MaxViolations, landmarks : SUBSET Landmarks]

StandardsObjects ==
  [minimumScore : {UNDEF, Some(0), Some(80)},
   maxViolations : {UNDEF, Some(0), Some(1)},
   requiredLandmarks : {UNDEF, Some({}), Some({"main"}), Some(Landmarks)}]

\* The failures validateAccessibilityStandards pushes.
StandardsFailures(report, standards) ==
  (IF NumTruthy(standards.minimumScore)
      /\ report.overallScore < standards.minimumScore[1]
     THEN {"score"} ELSE {})
  \cup
  (IF NumTruthy(standards.maxViolations)
      /\ report.violations > standards.maxViolations[1]
     THEN {"violations"} ELSE {})
  \cup
  (IF standards.requiredLandmarks # UNDEF
      /\ {l \in standards.requiredLandmarks[1] : l \notin report.landmarks} # {}
     THEN {"landmarks"} ELSE {})

\* Heading texts as textContent: empty, blank, or with text; trim() of each.
HeadingTexts == {"", " ", "Title"}

Trim(text) == IF text = " " THEN "" ELSE text

HeadingLists ==
  UNION {[1..n -> [level : 1..MaxHeadingLevel, text : HeadingTexts]] : n \in 0..MaxHeadings}

LevelJumpNever(level, previousLevel) == FALSE

\* if (level - previousLevel > 1)
LevelJump(level, previousLevel) == level - previousLevel > 1

\* The issues checkHeadingStructure pushes for the heading at index k (previousLevel
\* is 0 before the first heading).
HeadingIssues(headings, k) ==
  LET level == headings[k].level
      previousLevel == IF k = 1 THEN 0 ELSE headings[k - 1].level
  IN  (IF k = 1 /\ level # 1 THEN {<<"first", k>>} ELSE {})
      \cup (IF LevelJump(level, previousLevel) THEN {<<"jump", k>>} ELSE {})
      \cup (IF Trim(headings[k].text) = "" THEN {<<"empty", k>>} ELSE {})

HeadingStructureIssues(headings) ==
  UNION {HeadingIssues(headings, k) : k \in 1..Len(headings)}
  \cup (IF Len(headings) = 0 THEN {<<"none", 0>>} ELSE {})

\* The characters of a start parameter.
StartChars == {"-", "0", "2", "5", "x"}

Digit(c) == CASE c = "0" -> 0 [] c = "2" -> 2 [] c = "5" -> 5 [] OTHER -> -1

\* parseInt(s): an optional sign, then the leading digits; NaN (UNDEF) without one.
RECURSIVE LeadingDigits(_, _)
LeadingDigits(s, acc) ==
  IF s = <<>> \/ Digit(Head(s)) < 0 THEN acc
  ELSE LeadingDigits(Tail(s), Some((IF acc = UNDEF THEN 0 ELSE acc[1]) * 10 + Digit(Head(s))))

ParseInt(s) ==
  IF s # <<>> /\ Head(s) = "-"
    THEN LET n == LeadingDigits(Tail(s), UNDEF) IN IF n = UNDEF THEN UNDEF ELSE Some(0 - n[1])
    ELSE LeadingDigits(s, UNDEF)

\* The current URL: one that new URL() rejects, one without a start parameter, or one
\* with the start parameter given.
CurrentUrls ==
  {[valid |-> FALSE], [valid |-> TRUE, start |-> UNDEF]}
  \cup {[valid |-> TRUE, start |-> Some(s)] :
          s \in UNION {[1..n -> StartChars] : n \in 0..MaxStartLen}}

\* start ? Math.floor(parseInt(start) / 10) + 1 : 1, and 1 from the catch block;
\* UNDEF is NaN.
CurrentPageNumber(url) ==
  IF ~url.valid THEN Some(1)
  ELSE IF url.start = UNDEF \/ url.start[1] = <<>> THEN Some(1)
  ELSE LET n == ParseInt(url.start[1])
       IN  IF n = UNDEF THEN UNDEF ELSE Some((n[1] \div 10) + 1)

HelperInit == hCall = UNDEF

ValidateAccessibilityStandards(report, standards) ==
  /\ hCall' = Some([fn |-> "validateAccessibilityStandards", report |-> report,
                    standards |-> standards,
                    failures |-> StandardsFailures(report, standards),
                    passed |-> StandardsFailures(report, standards) = {}])
  /\ UNCHANGED notHelper

CheckHeadingStructure(headings) ==
  /\ hCall' = Some([fn |-> "checkHeadingStructure", headings |-> headings,
                    passed |-> HeadingStructureIssues(headings) = {}])
  /\ UNCHANGED notHelper

GetCurrentPageNumber(url) ==
  /\ hCall' = Some([fn |-> "getCurrentPageNumber", url |-> url,
                    result |-> CurrentPageNumber(url)])
  /\ UNCHANGED notHelper

HelperNext ==
  \/ \E report \in Reports, standards \in StandardsObjects :
       ValidateAccessibilityStandards(report, standards)
  \/ \E headings \in HeadingLists : CheckHeadingStructure(headings)
  \/ \E url \in CurrentUrls : GetCurrentPageNumber(url)

\* C24: for any standards object, validateAccessibilityStandards records a failure
\* for each supplied limit the report breaks (score below minimumScore, violation
\* count above maxViolations, a required landmark missing) and returns passed = true
\* exactly when no supplied limit is broken.
C24_StandardsValidated ==
  (hCall # UNDEF /\ hCall[1].fn = "validateAccessibilityStandards") =>
    LET c == hCall[1]
        st == c.standards
        broken ==
          (IF st.minimumScore # UNDEF /\ c.report.overallScore < st.minimumScore[1]
             THEN {"score"} ELSE {})
          \cup (IF st.maxViolations # UNDEF /\ c.report.violations > st.maxViolations[1]
                  THEN {"violations"} ELSE {})
          \cup (IF st.requiredLandmarks # UNDEF
                   /\ ~(st.requiredLandmarks[1] \subseteq c.report.landmarks)
                  THEN {"landmarks"} ELSE {})
    IN  c.failures = broken /\ c.passed = (broken = {})

\* C28: checkHeadingStructure returns passed = true exactly when the page has at
\* least one heading, the first heading is an h1, no heading is more than one level
\* deeper than the heading before it, and no heading has empty (blank) text.
C28_HeadingStructurePassed ==
  (hCall # UNDEF /\ hCall[1].fn = "checkHeadingStructure") =>
    LET hs == hCall[1].headings
    IN  hCall[1].passed =
          (/\ Len(hs) >= 1
           /\ hs[1].level = 1
           /\ \A k \in 2..Len(hs) : hs[k].level <= hs[k - 1].level + 1
           /\ \A k \in 1..Len(hs) : hs[k].text \notin {"", " "})

\* An h1 followed by an h3 was checked and not passed.
C28_Witness ==
  /\ hCall # UNDEF /\ hCall[1].fn = "checkHeadingStructure"
  /\ Len(hCall[1].headings) = 2
  /\ hCall[1].headings[1] = [level |-> 1, text |-> "Title"]
  /\ hCall[1].headings[2] = [level |-> 3, text |-> "Title"]
  /\ ~hCall[1].passed

\* C29: getCurrentPageNumber always returns an integer greater than or equal to 1,
\* whatever the current URL and its start parameter contain.
C29_PageNumberAtLeastOne ==
  (hCall # UNDEF /\ hCall[1].fn = "getCurrentPageNumber") =>
    (hCall[1].result # UNDEF /\ hCall[1].result[1] >= 1)

(***************************************************************************)
(* FileHelper.uploadFile / uploadMultipleFiles / clearFileInput            *)
(***************************************************************************)
MaxUploadFiles == 2

\* Paths a test hands to the upload methods, already resolved.
UploadPaths == {"doc.pdf", "img.png"}

\* The filePaths arrays of uploadMultipleFiles.
UploadPathLists == UNION {[1..n -> UploadPaths] : n \in 0..MaxUploadFiles}

UploadMissingFirstOnly(fs, filePaths) == filePaths # <<>> /\ ~fs[filePaths[1]]

\* filePaths.map(p => { ... if (!fs.existsSync(abs)) throw ... }) throws: the map
\* visits every path before setInputFiles is reached.
UploadMissing(fs, filePaths) == \E i \in 1..Len(filePaths) : ~fs[filePaths[i]]

UploadInit ==
  /\ upFs = [p \in UploadPaths |-> FALSE]
  /\ upInput = <<>>
  /\ upCall = UNDEF

\* The file system between two calls: a file is created or removed.
UpFsChange(p) ==
  /\ UNCHANGED notUpload
  /\ upFs' = [upFs EXCEPT ![p] = ~upFs[p]]
  /\ upCall' = UNDEF
  /\ UNCHANGED upInput

\* uploadFile(selector, filePath); hostOk: page.setInputFiles finds the input and
\* sets the file on it, otherwise it throws.
UploadFile(filePath, hostOk) ==
  /\ UNCHANGED notUpload
  /\ UNCHANGED upFs
  /\ LET outcome == IF ~upFs[filePath] THEN "Upload file not found"
                    ELSE IF hostOk THEN "returned" ELSE "setInputFiles threw"
     IN  /\ upInput' = IF outcome = "returned" THEN <<filePath>> ELSE upInput
         /\ upCall' = Some([method |-> "uploadFile", filePaths |-> <<filePath>>,
                            inputBefore |-> upInput, outcome |-> outcome])

\* uploadMultipleFiles(selector, filePaths)
UploadMultipleFiles(filePaths, hostOk) ==
  /\ UNCHANGED notUpload
  /\ UNCHANGED upFs
  /\ LET outcome == IF UploadMissing(upFs, filePaths) THEN "Upload file not found"
                    ELSE IF hostOk THEN "returned" ELSE "setInputFiles threw"
     IN  /\ upInput' = IF outcome = "returned" THEN filePaths ELSE upInput
         /\ upCall' = Some([method |-> "uploadMultipleFiles", filePaths |-> filePaths,
                            inputBefore |-> upInput, outcome |-> outcome])

\* clearFileInput(selector): page.setInputFiles(selector, [])
ClearFileInput ==
  /\ UNCHANGED notUpload
  /\ UNCHANGED upFs
  /\ upInput' = <<>>
  /\ upCall' = UNDEF

UploadNext ==
  \/ \E p \in UploadPaths : UpFsChange(p)
  \/ \E p \in UploadPaths, hostOk \in BOOLEAN : UploadFile(p, hostOk)
  \/ \E ps \in UploadPathLists, hostOk \in BOOLEAN : UploadMultipleFiles(ps, hostOk)
  \/ ClearFileInput

\* C25: when a path given to uploadFile or uploadMultipleFiles does not exist, the
\* call throws 'Upload file not found' and the files set on the page's file input
\* are the ones it held before the call: none of the call's files is set, the
\* existing ones included.
C25_MissingUploadLeavesInput ==
  (upCall # UNDEF /\ \E i \in 1..Len(upCall[1].filePaths) : ~upFs[upCall[1].filePaths[i]]) =>
    /\ upCall[1].outcome = "Upload file not found"
    /\ upInput = upCall[1].inputBefore

\* uploadMultipleFiles with an existing first path and a missing second one, on an
\* input that already held a file: the call threw and the input still holds it.
C25_Witness ==
  /\ upCall # UNDEF
  /\ upCall[1].method = "uploadMultipleFiles"
  /\ Len(upCall[1].filePaths) = 2
  /\ upFs[upCall[1].filePaths[1]]
  /\ ~upFs[upCall[1].filePaths[2]]
  /\ upCall[1].outcome = "Upload file not found"
  /\ upCall[1].inputBefore # <<>>
  /\ upInput = upCall[1].inputBefore

(***************************************************************************)
(* ScreenshotHelper.takeMobileScreenshots / takeBeforeAfterScreenshots     *)
(***************************************************************************)
MaxShotCalls == 2

\* viewport: { width: 1920, height: 1080 } of the context fixture
FixtureViewport == [width |-> 1920, height |-> 1080]

\* const devices = [...]
MobileDevices ==
  << [name |-> "mobile-portrait", width |-> 375, height |-> 667],
     [name |-> "mobile-landscape", width |-> 667, height |-> 375],
     [name |-> "tablet-portrait", width |-> 768, height |-> 1024],
     [name |-> "tablet-landscape", width |-> 1024, height |-> 768] >>

BeforeAfterStepsActionNotAwaited == <<"before", "actionStart", "after", "actionEnd">>

\* The statements of takeBeforeAfterScreenshots in program order: the awaited
\* 'before' screenshot, the call of action(), the await of its promise, the awaited
\* 'after' screenshot.
BeforeAfterSteps == <<"before", "actionStart", "actionEnd", "after">>

ShotRunning == shCall # UNDEF /\ shCall[1].outcome = "running"

ShotsInit ==
  /\ shViewport = FixtureViewport
  /\ shCall = UNDEF
  /\ shLog = <<>>
  /\ shCalls = 0

\* takeMobileScreenshots(name) up to its loop.
TakeMobileScreenshots ==
  /\ UNCHANGED notShots
  /\ ~ShotRunning
  /\ shCalls < MaxShotCalls
  /\ shCalls' = shCalls + 1
  /\ shCall' = Some([method |-> "takeMobileScreenshots", step |-> 0,
                     viewportBefore |-> shViewport, outcome |-> "running"])
  /\ shLog' = <<>>
  /\ UNCHANGED shViewport

\* One iteration of the loop over the devices: setViewportSize, waitForTimeout,
\* screenshot (ok: it is written, otherwise it throws), push. After the last
\* device the method returns the file names.
MobileDeviceStep(ok) ==
  /\ UNCHANGED notShots
  /\ ShotRunning
  /\ shCall[1].method = "takeMobileScreenshots"
  /\ LET device == MobileDevices[shCall[1].step + 1] IN
       /\ shViewport' = [width |-> device.width, height |-> device.height]
       /\ shLog' = IF ok THEN Append(shLog, device.name) ELSE shLog
       /\ shCall' = Some([shCall[1] EXCEPT
            !.step = IF ok THEN @ + 1 ELSE @,
            !.outcome = IF ~ok THEN "threw"
                        ELSE IF shCall[1].step + 1 = Len(MobileDevices) THEN "returned"
                        ELSE "running"])
  /\ UNCHANGED shCalls

\* takeBeforeAfterScreenshots(name, action) up to its first screenshot.
TakeBeforeAfterScreenshots ==
  /\ UNCHANGED notShots
  /\ ~ShotRunning
  /\ shCalls < MaxShotCalls
  /\ shCalls' = shCalls + 1
  /\ shCall' = Some([method |-> "takeBeforeAfterScreenshots", step |-> 0,
                     viewportBefore |-> shViewport, outcome |-> "running"])
  /\ shLog' = <<>>
  /\ UNCHANGED shViewport

\* The next statement of takeBeforeAfterScreenshots (ok: the screenshot is written,
\* the action's promise resolves; otherwise the statement throws and the method
\* ends there). After the last statement the method returns both file names.
BeforeAfterStep(ok) ==
  /\ UNCHANGED notShots
  /\ ShotRunning
  /\ shCall[1].method = "takeBeforeAfterScreenshots"
  /\ shLog' = IF ok THEN Append(shLog, BeforeAfterSteps[shCall[1].step + 1]) ELSE shLog
  /\ shCall' = Some([shCall[1] EXCEPT
       !.step = IF ok THEN @ + 1 ELSE @,
       !.outcome = IF ~ok THEN "threw"
                   ELSE IF shCall[1].step + 1 = Len(BeforeAfterSteps) THEN "returned"
                   ELSE "running"])
  /\ UNCHANGED <<shViewport, shCalls>>

ShotsNext ==
  \/ TakeMobileScreenshots
  \/ \E ok \in BOOLEAN : MobileDeviceStep(ok)
  \/ TakeBeforeAfterScreenshots
  \/ \E ok \in BOOLEAN : BeforeAfterStep(ok)

\* C26: in a call of takeBeforeAfterScreenshots the 'before' screenshot is taken
\* before the supplied action starts, and the 'after' screenshot is taken only
\* after the action has completed.
C26_BeforeActionAfter ==
  (shCall # UNDEF /\ shCall[1].method = "takeBeforeAfterScreenshots") =>
    \A i \in 1..Len(shLog) :
      /\ shLog[i] = "actionStart" => \E j \in 1..(i - 1) : shLog[j] = "before"
      /\ shLog[i] = "after" => \E j \in 1..(i - 1) : shLog[j] = "actionEnd"

\* A call that returned: before screenshot, action from start to end, after
\* screenshot.
C26_Witness ==
  /\ shCall # UNDEF
  /\ shCall[1].method = "takeBeforeAfterScreenshots"
  /\ shCall[1].outcome = "returned"
  /\ shLog = <<"before", "actionStart", "actionEnd", "after">>

\* C30: after takeMobileScreenshots returns, the page's viewport size is the one it
\* had before the call.
C30_ViewportRestored ==
  (shCall # UNDEF /\ shCall[1].method = "takeMobileScreenshots"
     /\ shCall[1].outcome = "returned") =>
    shViewport = shCall[1].viewportBefore

(***************************************************************************)
(* TestDataManager query methods                                           *)
(***************************************************************************)
MaxUsers == 2

\* Entries of the users array, by the fields the queries read.
TdUsers == [id : {"user1", "user2"}, role : {"admin", "user"}]

UserLists == UNION {[1..n -> TdUsers] : n \in 0..MaxUsers}

\* Entries of the searchQueries array, by the fields the queries read.
TdSearchQueries ==
  << [id |-> "search1", category |-> "valid", expectedBehavior |-> "pass"],
     [id |-> "search2", category |-> "invalid", expectedBehavior |-> "fail"] >>

SearchQueryLists == {SubSeq(TdSearchQueries, 1, n) : n \in 0..Len(TdSearchQueries)}

UrlLists == {<<>>, <<[id |-> "google-home"]>>}

EnvironmentLists ==
  {<<>>, <<[name |-> "staging"]>>, <<[name |-> "prod"], [name |-> "staging"]>>}

\* The objects a data file can hold.
TestDataObjects ==
  [users : UserLists, searchQueries : SearchQueryLists, urls : UrlLists,
   environments : EnvironmentLists]

SearchCategories == {"valid", "invalid", "edge-case", "performance"}

\* An array operation gives its value and leaves the receiver array in some state.
ArrayFilterInPlace(arr, matching) ==
  LET kept == SelectSeq(arr, LAMBDA x : x \in matching)
  IN  [value |-> kept, receiver |-> kept]

\* Array.prototype.filter: a new array of the matching elements; the receiver keeps
\* its elements.
ArrayFilter(arr, matching) ==
  [value |-> SelectSeq(arr, LAMBDA x : x \in matching), receiver |-> arr]

\* Array.prototype.find: the first matching element or undefined.
ArrayFind(arr, matching) ==
  LET idx == {i \in 1..Len(arr) : arr[i] \in matching}
  IN  [value |-> IF idx = {} THEN UNDEF
                 ELSE Some(arr[CHOOSE i \in idx : \A j \in idx : i <= j]),
       receiver |-> arr]

\* arr[i] for a zero-based index: the element or undefined.
ArrayAt(arr, i) ==
  [value |-> IF i + 1 \in 1..Len(arr) THEN Some(arr[i + 1]) ELSE UNDEF,
   receiver |-> arr]

\* this.testData?.<field>... when testData is null: the optional chain gives
\* undefined and `|| []`, where present, the value.
OnNull(value) == [value |-> value, receiver |-> <<>>]

\* Math.floor(Math.random() * arr.length)
RandomIndexes(arr) == IF arr = <<>> THEN {0} ELSE 0..(Len(arr) - 1)

QueryInit ==
  /\ tdmData = UNDEF
  /\ tdmLoaded = UNDEF
  /\ tdmCall = UNDEF

\* loadTestData / loadFromYaml / loadFromApi: this.testData = <parsed content>.
TdmLoad(data) ==
  /\ UNCHANGED notQuery
  /\ tdmLoaded = UNDEF
  /\ tdmData' = data
  /\ tdmLoaded' = data
  /\ tdmCall' = UNDEF

\* The state a query method leaves: r is what its array operation on
\* this.testData[field] gave.
QueryDone(method, field, r) ==
  /\ tdmData' = IF tdmData = UNDEF THEN tdmData
                ELSE Some([tdmData[1] EXCEPT ![field] = r.receiver])
  /\ tdmCall' = Some([method |-> method, value |-> r.value])
  /\ UNCHANGED tdmLoaded

GetUsers ==
  /\ UNCHANGED notQuery
  /\ QueryDone("getUsers", "users",
    IF tdmData = UNDEF THEN OnNull(<<>>)
    ELSE [value |-> tdmData[1].users, receiver |-> tdmData[1].users])

GetUserById(id) ==
  /\ UNCHANGED notQuery
  /\ QueryDone("getUserById", "users",
    IF tdmData = UNDEF THEN OnNull(UNDEF)
    ELSE ArrayFind(tdmData[1].users, {u \in TdUsers : u.id = id}))

GetUsersByRole(role) ==
  /\ UNCHANGED notQuery
  /\ QueryDone("getUsersByRole", "users",
    IF tdmData = UNDEF THEN OnNull(<<>>)
    ELSE ArrayFilter(tdmData[1].users, {u \in TdUsers : u.role = role}))

GetSearchQueries ==
  /\ UNCHANGED notQuery
  /\ QueryDone("getSearchQueries", "searchQueries",
    IF tdmData = UNDEF THEN OnNull(<<>>)
    ELSE [value |-> tdmData[1].searchQueries, receiver |-> tdmData[1].searchQueries])

GetSearchQueryById(id) ==
  /\ UNCHANGED notQuery
  /\ QueryDone("getSearchQueryById", "searchQueries",
    IF tdmData = UNDEF THEN OnNull(UNDEF)
    ELSE ArrayFind(tdmData[1].searchQueries,
                   {q \in {TdSearchQueries[k] : k \in 1..Len(TdSearchQueries)} : q.id = id}))

GetSearchQueriesByCategory(category) ==
  /\ UNCHANGED notQuery
  /\ QueryDone("getSearchQueriesByCategory", "searchQueries",
    IF tdmData = UNDEF THEN OnNull(<<>>)
    ELSE ArrayFilter(tdmData[1].searchQueries,
                     {q \in {TdSearchQueries[k] : k \in 1..Len(TdSearchQueries)} :
                        q.category = category}))

GetSearchQueriesByBehavior(behavior) ==
  /\ UNCHANGED notQuery
  /\ QueryDone("getSearchQueriesByBehavior", "searchQueries",
    IF tdmData = UNDEF THEN OnNull(<<>>)
    ELSE ArrayFilter(tdmData[1].searchQueries,
                     {q \in {TdSearchQueries[k] : k \in 1..Len(TdSearchQueries)} :
                        q.expectedBehavior = behavior}))

GetUrls ==
  /\ UNCHANGED notQuery
  /\ QueryDone("getUrls", "urls",
    IF tdmData = UNDEF THEN OnNull(<<>>)
    ELSE [value |-> tdmData[1].urls, receiver |-> tdmData[1].urls])

GetUrlById(id) ==
  /\ UNCHANGED notQuery
  /\ QueryDone("getUrlById", "urls",
    IF tdmData = UNDEF THEN OnNull(UNDEF)
    ELSE ArrayFind(tdmData[1].urls, {[id |-> id]}))

\* The array operation of getEnvironment(name).
FindEnvironment(name) ==
  IF tdmData = UNDEF THEN OnNull(UNDEF)
  ELSE ArrayFind(tdmData[1].environments, {[name |-> name]})

GetEnvironment(name) ==
  /\ UNCHANGED notQuery
  /\ QueryDone("getEnvironment", "environments", FindEnvironment(name))

\* getCurrentEnvironment(): getEnvironment(this.environment)
GetCurrentEnvironment ==
  /\ UNCHANGED notQuery
  /\ QueryDone("getCurrentEnvironment", "environments", FindEnvironment(environment))

\* getRandomUser(); i: the index Math.random gives.
GetRandomUser(i) ==
  LET users == IF tdmData = UNDEF THEN <<>> ELSE tdmData[1].users IN
    /\ UNCHANGED notQuery
    /\ i \in RandomIndexes(users)
    /\ QueryDone("getRandomUser", "users", ArrayAt(users, i))

\* getRandomSearchQuery(category?); i: the index Math.random gives.
GetRandomSearchQuery(category, i) ==
  LET all == IF tdmData = UNDEF THEN OnNull(<<>>)
             ELSE IF category # UNDEF
               THEN ArrayFilter(tdmData[1].searchQueries,
                      {q \in {TdSearchQueries[k] : k \in 1..Len(TdSearchQueries)} :
                         q.category = category[1]})
               ELSE [value |-> tdmData[1].searchQueries,
                     receiver |-> tdmData[1].searchQueries]
  IN  /\ UNCHANGED notQuery
      /\ i \in RandomIndexes(all.value)
      /\ QueryDone("getRandomSearchQuery", "searchQueries",
                   [value |-> ArrayAt(all.value, i).value, receiver |-> all.receiver])

QueryNext ==
  \/ \E data \in {UNDEF} \cup {Some(d) : d \in TestDataObjects} : TdmLoad(data)
  \/ GetUsers
  \/ \E id \in {"user1", "user2", "user9"} : GetUserById(id)
  \/ \E role \in {"admin", "user", "guest"} : GetUsersByRole(role)
  \/ GetSearchQueries
  \/ \E id \in {"search1", "search2", "search9"} : GetSearchQueryById(id)
  \/ \E category \in SearchCategories : GetSearchQueriesByCategory(category)
  \/ \E behavior \in {"pass", "fail"} : GetSearchQueriesByBehavior(behavior)
  \/ GetUrls
  \/ \E id \in {"google-home", "google-maps"} : GetUrlById(id)
  \/ \E name \in {"staging", "prod", "dev"} : GetEnvironment(name)
  \/ GetCurrentEnvironment
  \/ \E i \in 0..MaxUsers : GetRandomUser(i)
  \/ \E category \in {UNDEF} \cup {Some(c) : c \in SearchCategories},
        i \in 0..Len(TdSearchQueries) : GetRandomSearchQuery(category, i)

\* C27: no query method of TestDataManager changes the loaded test data: after any
\* sequence of query calls this.testData equals what was loaded (null when nothing
\* was).
C27_QueriesKeepLoadedData == tdmData = tdmLoaded

\* getUsersByRole returned some but not all of the loaded users, and the loaded
\* users are all still there.
C27_Witness ==
  /\ tdmCall # UNDEF
  /\ tdmCall[1].method = "getUsersByRole"
  /\ tdmLoaded # UNDEF
  /\ tdmCall[1].value # <<>>
  /\ Len(tdmCall[1].value) < Len(tdmLoaded[1].users)
  /\ tdmData = tdmLoaded

Init ==
  /\ RetryInit /\ ReporterInit /\ DataInit /\ ApiInit /\ FixtureInit /\ ArtifactInit
  /\ PagesInit
  /\ LoggerInit
  /\ DownloadInit
  /\ GlobalInit
  /\ HelperInit
  /\ UploadInit
  /\ ShotsInit
  /\ QueryInit

SpecRetry == Init /\ [][RetryNext]_vars

SpecReporter == Init /\ [][ReporterNext]_vars

SpecData == Init /\ [][DataNext]_vars

SpecApi == Init /\ [][ApiNext]_vars

SpecFixture == Init /\ [][FixtureNext]_vars

SpecArtifacts == Init /\ [][ArtifactNext]_vars

SpecPages == Init /\ [][PagesNext]_vars

SpecLogger == Init /\ [][LoggerNext]_vars

SpecDownload == Init /\ [][DownloadNext]_vars

SpecApiHeaders == Init /\ [][ApiHeadersNext]_vars

SpecGlobal == Init /\ [][GlobalNext]_vars

SpecHelper == Init /\ [][HelperNext]_vars

SpecUpload == Init /\ [][UploadNext]_vars

SpecShots == Init /\ [][ShotsNext]_vars

SpecQuery == Init /\ [][QueryNext]_vars

====
